---- MODULE Spec2Model ----
(***************************************************************************)
(* State-machine model of the SCSS navigator's resolution engine:          *)
(* the per-repository cache (ScssCache), the import parser                 *)
(* (parseScssImports / parseForwardImports), the definition resolver       *)
(* (findDefinitionInFile, provideDefinition) and the symbol indexer        *)
(* (collectSymbolsFromFile, collectSymbolsRecursively,                     *)
(* getAvailableSymbols).  Requests are cooperative tasks that are          *)
(* suspended only at readFile; everything between two reads is one atomic  *)
(* step.                                                                   *)
(***************************************************************************)
EXTENDS Integers, Sequences, FiniteSets, TLC

\* ---------------------------------------------------------------- bounds
\* number of requests that may be dispatched in one behaviour
MaxRequests == 2
\* call-stack depth at which a request is declared divergent
MaxDepth == 12
\* entries of an alias map handed to resolveAlias
MaxAliases == 2
\* references of the root tsconfig.json
MaxReferences == 2
\* repository contexts that are loaded
MaxContexts == 2
\* import statements of a validated document
MaxImports == 2
\* tokens of the text before the cursor
MaxText == 5
\* longest file given to the symbol extractor, in lines
MaxLines == 4

\* ---------------------------------------------------------------- values
\* names, namespaces and paths are sequences of string pieces; the empty one
\* stands for null / no file
Null == <<>>
NoFile == <<>>
Star == <<"*">>

\* File paths are sequences of string pieces, so that the string operations
\* of the code (concatenation, startsWith) keep their meaning.
FM == <<"m">>
FA == <<"a">>
FB == <<"b">>
\* a file whose name is that of FA followed by ":x"
FC == <<"a", ":", "x">>
Files == {FM, FA, FB, FC}
Docs == {FM, FA}
Repos == {"r1", "r2"}

Types == {"variable", "mixin", "function"}

StartsWith(s, p) == Len(p) <= Len(s) /\ SubSeq(s, 1, Len(p)) = p

\* vscode.Uri.file(p).toString(): scheme prefix, ':' percent-encoded
UriString(p) ==
    <<"file://">> \o [i \in 1..Len(p) |-> IF p[i] = ":" THEN "%3A" ELSE p[i]]

\* the cache key of findDefinitionInFile
CacheKey(filePath, name, type) == filePath \o <<":">> \o name \o <<":", type>>

\* mutant: no name is private
IsPrivateNever(name) == FALSE

IsPrivate(name) == StartsWith(name, <<"_">>) \/ StartsWith(name, <<"-">>)

\* ---------------------------------------------------------------- content
\* A file is a sequence of lines.  A line is a declaration or a line of
\* @use / @forward / @import statements; a statement names the file its path
\* resolves to (NoFile when findScssFile finds nothing).
Decl(type, name) == [k |-> "decl", type |-> type, name |-> name,
                     uses |-> <<>>, fwds |-> <<>>, imps |-> <<>>]
Stmts(uses, fwds) == [k |-> "import", type |-> "", name |-> Null,
                      uses |-> uses, fwds |-> fwds, imps |-> <<>>]
\* a line of `@import "<path>";` statements
ImportLine(targets) == [k |-> "import", type |-> "", name |-> Null,
                        uses |-> <<>>, fwds |-> <<>>, imps |-> targets]
\* what readFile yields: the lines, or a failure
Text(lines) == [ok |-> TRUE, lines |-> lines]
Unreadable == [ok |-> FALSE, lines |-> <<>>]
\* @use "<path>" [as <as>]: as is a name, "*" or Null; base is the last
\* segment of the path; builtin is TRUE for a path that starts with sass:
Use(target, as, base) == [target |-> target, as |-> as, base |-> base,
                          builtin |-> FALSE]
UseBuiltin(base) == [target |-> NoFile, as |-> Null, base |-> base,
                     builtin |-> TRUE]
\* @use "sass:<mod>" [as <as>] in a directory where findScssFile would find
\* the file target for that path (a file named `sass:<mod>.scss`)
UseSass(mod, as, target) == [target |-> target, as |-> as,
                             base |-> <<"sass:", mod>>, builtin |-> TRUE]

\* vscode.Location, and the null of "no definition"
Loc(file, line) == [file |-> file, line |-> line]
NullLoc == [file |-> NoFile, line |-> 0]

\* ScssSymbol
Symbol(name, type, file, line) ==
    [name |-> name, type |-> type, filePath |-> file, line |-> line]

\* ---------------------------------------------------------------- parsers
RECURSIVE Flatten(_)
Flatten(ss) == IF ss = <<>> THEN <<>> ELSE Head(ss) \o Flatten(Tail(ss))

\* namespace of one @use statement (parseScssImports, lines 32-45)
UseNamespace(u) ==
    LET ns1 == IF u.as = Null
               THEN (IF StartsWith(u.base, <<"_">>) THEN Tail(u.base) ELSE u.base)
               ELSE u.as
    IN IF ns1 = Star THEN Null ELSE ns1

Edge(filePath, namespace) == [filePath |-> filePath, namespace |-> namespace]

\* mutant: the sass: test is missing
LineEdgesKeepBuiltin(line) ==
    LET useOk(u) == u.target # NoFile
        fwdOk(t) == t # NoFile
        us == SelectSeq(line.uses, useOk)
        fw == SelectSeq(line.fwds, fwdOk)
    IN [i \in 1..Len(us) |-> Edge(us[i].target, UseNamespace(us[i]))]
       \o [i \in 1..Len(fw) |-> Edge(fw[i], Null)]

\* edges of one line: every @use of the line, then every @forward; no
\* pattern of parseScssImports matches @import
LineEdges(line) ==
    LET useOk(u) == ~u.builtin /\ u.target # NoFile
        fwdOk(t) == t # NoFile
        us == SelectSeq(line.uses, useOk)
        fw == SelectSeq(line.fwds, fwdOk)
    IN [i \in 1..Len(us) |-> Edge(us[i].target, UseNamespace(us[i]))]
       \o [i \in 1..Len(fw) |-> Edge(fw[i], Null)]

\* body of parseScssImports on a cache miss
ScanImports(lines) == Flatten([i \in 1..Len(lines) |-> LineEdges(lines[i])])

\* forwards of one line: line.match is not global, only the first @forward
\* of a line is seen
LineForwards(line) ==
    IF line.fwds # <<>> /\ line.fwds[1] # NoFile THEN <<line.fwds[1]>> ELSE <<>>

\* body of parseForwardImports after a successful read
ScanForwards(lines) == Flatten([i \in 1..Len(lines) |-> LineForwards(lines[i])])

\* body of collectSymbolsFromFile after a successful read
RECURSIVE ScanSymbolsFrom(_, _, _)
ScanSymbolsFrom(lines, filePath, i) ==
    IF i > Len(lines) THEN <<>>
    ELSE (IF lines[i].k = "decl"
          THEN <<Symbol(lines[i].name, lines[i].type, filePath, i - 1)>>
          ELSE <<>>) \o ScanSymbolsFrom(lines, filePath, i + 1)

ScanSymbols(lines, filePath) == ScanSymbolsFrom(lines, filePath, 1)

\* the line scan of findDefinitionInFile (lines 161-184): first match wins
ScanDefinition(lines, filePath, name, type) ==
    LET hits == {i \in 1..Len(lines) :
                    lines[i].k = "decl" /\ lines[i].name = name /\ lines[i].type = type}
    IN IF hits = {} THEN NullLoc
       ELSE Loc(filePath, (CHOOSE i \in hits : \A j \in hits : i <= j) - 1)

\* ---------------------------------------------------------------- cache
\* A partition is a map (a function with a finite domain) per repository.
EmptyMap == [k \in {} |-> Null]
Put(m, k, v) == [x \in DOMAIN m \cup {k} |-> IF x = k THEN v ELSE m[x]]
Drop(m, ks) == [x \in DOMAIN m \ ks |-> m[x]]

EmptyCache == [imports     |-> [r \in Repos |-> EmptyMap],
               definitions |-> [r \in Repos |-> EmptyMap],
               forwards    |-> [r \in Repos |-> EmptyMap],
               symbols     |-> [r \in Repos |-> EmptyMap]]

Has(c, part, repo, key) == key \in DOMAIN c[part][repo]
Get(c, part, repo, key) == c[part][repo][key]
Set(c, part, repo, key, v) ==
    [c EXCEPT ![part][repo] = Put(@, key, v)]

\* ScssCache.invalidateFile
CacheInvalidateFile(c, repo, uri) ==
    [c EXCEPT !.imports[repo] = Drop(@, {uri}),
              !.definitions[repo] =
                  Drop(@, {k \in DOMAIN @ : StartsWith(k, uri \o <<":">>)}),
              !.forwards[repo] = Drop(@, {uri}),
              !.symbols[repo] = Drop(@, {uri})]

\* mutant: the definitions partition survives
CacheInvalidateRepositoryKeepDefs(c, repo) ==
    [c EXCEPT !.imports[repo] = EmptyMap,
              !.forwards[repo] = EmptyMap,
              !.symbols[repo] = EmptyMap]

\* ScssCache.invalidateRepository
CacheInvalidateRepository(c, repo) ==
    [c EXCEPT !.imports[repo] = EmptyMap,
              !.definitions[repo] = EmptyMap,
              !.forwards[repo] = EmptyMap,
              !.symbols[repo] = EmptyMap]

\* ---------------------------------------------------------------- requests
\* The text at the cursor as the patterns of provideDefinition see it: for
\* each of the six patterns what it captures (Null when it does not match).
NoMatch == [ns |-> Null, name |-> Null]
NsMatch(ns, name) == [ns |-> ns, name |-> name]
Ref(varNs, varBare, mixNs, mixBare, funNs, funBare) ==
    [varNs |-> varNs, varBare |-> varBare, mixNs |-> mixNs,
     mixBare |-> mixBare, funNs |-> funNs, funBare |-> funBare]
NoRef == Ref(NoMatch, Null, NoMatch, Null, NoMatch, Null)

NoIo == [st |-> "none", file |-> NoFile, data |-> Unreadable]
NoCall == [file |-> NoFile, name |-> Null, type |-> "", res |-> NullLoc]

Frame(fn, file, name, type) ==
    [fn |-> fn, pc |-> "enter", file |-> file, name |-> name, type |-> type,
     list |-> <<>>, i |-> 1, sym |-> 0, acc |-> EmptyMap, br |-> 1]

IdleReq == [status |-> "idle", kind |-> "none", doc |-> NoFile, repo |-> "",
            ref |-> NoRef, stack |-> <<>>, visited |-> {}, seen |-> {},
            revisit |-> FALSE, retLoc |-> NullLoc, retList |-> <<>>,
            retSym |-> 0, io |-> NoIo, resLoc |-> NullLoc,
            resSyms |-> EmptyMap, lastFD |-> NoCall,
            nestedCacheUse |-> FALSE]

\* the repository that owns a document (getRepositoryContext at the call sites)
RepoOf(doc) == IF doc = FM THEN "r1" ELSE "r2"

\* mutant: the visited-set is never extended
MarkVisitedNot(visited, file) == visited

\* visitedFiles.add(filePath)
MarkVisited(visited, file) == visited \cup {file}

\* ---- one configuration of the interpreter: a request, the cache, the heap
\* of symbol arrays (the cache and the callers share array objects), and the
\* file system (read by parseScssImports through the document)
TopF(cfg) == cfg.q.stack[Len(cfg.q.stack)]
WithTop(cfg, f) == [cfg EXCEPT !.q.stack[Len(cfg.q.stack)] = f]

PushF(cfg, parent, child) ==
    IF Len(cfg.q.stack) >= MaxDepth
    THEN [cfg EXCEPT !.q.status = "overflow"]
    ELSE [cfg EXCEPT !.q.stack = Append(WithTop(cfg, parent).q.stack, child)]

Pop(cfg) == [cfg EXCEPT !.q.stack = SubSeq(@, 1, Len(@) - 1)]

IssueRead(cfg, f, file) ==
    [WithTop(cfg, f) EXCEPT !.q.io = [st |-> "issued", file |-> file,
                                      data |-> Unreadable]]

TakeRead(cfg) == [cfg EXCEPT !.q.io = NoIo]

\* return of findDefinitionInFile / provideDefinition
RetLoc(cfg, loc) ==
    LET f == TopF(cfg)
        c1 == IF f.fn = "FD"
              THEN [cfg EXCEPT !.q.lastFD = [file |-> f.file, name |-> f.name,
                                             type |-> f.type, res |-> loc]]
              ELSE cfg
    IN IF Len(cfg.q.stack) = 1
       THEN [c1 EXCEPT !.q.stack = <<>>, !.q.status = "done",
                       !.q.resLoc = loc, !.q.retLoc = NullLoc]
       ELSE [Pop(c1) EXCEPT !.q.retLoc = loc]

\* return of parseForwardImports
RetList(cfg, list) == [Pop(cfg) EXCEPT !.q.retList = list]

\* return of collectSymbolsFromFile / collectSymbolsRecursively
RetSym(cfg, id) == [Pop(cfg) EXCEPT !.q.retSym = id]

\* return of getAvailableSymbols
RetMap(cfg, m) ==
    [cfg EXCEPT !.q.stack = <<>>, !.q.status = "done", !.q.resSyms = m,
                !.q.retSym = 0]

Arr(heap, id) == IF id = 0 THEN <<>> ELSE heap[id]
NewId(heap) == CHOOSE i \in 1..(Cardinality(DOMAIN heap) + 1) : i \notin DOMAIN heap

\* parseScssImports: synchronous, memoized by document.uri.toString()
Imports(cfg) ==
    LET uri == UriString(cfg.q.doc)
    IN IF Has(cfg.cache, "imports", cfg.q.repo, uri)
       THEN Get(cfg.cache, "imports", cfg.q.repo, uri)
       ELSE ScanImports(cfg.fs[cfg.q.doc].lines)

AfterImports(cfg) ==
    LET uri == UriString(cfg.q.doc)
    IN IF Has(cfg.cache, "imports", cfg.q.repo, uri) THEN cfg
       ELSE [cfg EXCEPT !.cache = Set(@, "imports", cfg.q.repo, uri,
                                      ScanImports(cfg.fs[cfg.q.doc].lines))]

\* mutant: every call takes itself for the outermost one
IsOutermostAlways(visited) == TRUE

\* visitedFiles.size === 1
IsOutermost(visited) == Cardinality(visited) = 1

\* ghost: a findDefinitionInFile call below the outermost one has called
\* getDefinition or setDefinition
UsesCache(cfg) ==
    IF Len(cfg.q.stack) > 2 THEN [cfg EXCEPT !.q.nestedCacheUse = TRUE] ELSE cfg

\* ---- findDefinitionInFile
StepFD(cfg) ==
    LET q == cfg.q
        f == TopF(cfg)
        key == CacheKey(f.file, f.name, f.type)
        outer == IsOutermost(q.visited)
    IN CASE f.pc = "enter" ->
              IF f.file \in q.visited THEN RetLoc(cfg, NullLoc)
              ELSE LET v2 == MarkVisited(q.visited, f.file)
                       c2 == [cfg EXCEPT !.q.visited = v2,
                                         !.q.seen = @ \cup {f.file},
                                         !.q.revisit = @ \/ f.file \in q.seen]
                       c3 == IF IsOutermost(v2) THEN UsesCache(c2) ELSE c2
                   IN IF IsOutermost(v2)
                         /\ Has(cfg.cache, "definitions", q.repo, key)
                      THEN RetLoc(c3, Get(cfg.cache, "definitions", q.repo, key))
                      ELSE IF IsPrivate(f.name) THEN RetLoc(c3, NullLoc)
                      ELSE IssueRead(c3, [f EXCEPT !.pc = "read"], f.file)
         [] f.pc = "read" ->
              LET c2 == TakeRead(cfg)
                  loc == ScanDefinition(q.io.data.lines, f.file, f.name, f.type)
              IN IF ~q.io.data.ok THEN WithTop(c2, [f EXCEPT !.pc = "end"])
                 ELSE IF loc # NullLoc
                 THEN RetLoc(IF outer
                             THEN [UsesCache(c2) EXCEPT !.cache =
                                      Set(@, "definitions", q.repo, key, loc)]
                             ELSE c2, loc)
                 ELSE PushF(c2, [f EXCEPT !.pc = "fwds"],
                            Frame("PF", f.file, Null, ""))
         [] f.pc = "fwds" ->
              WithTop([cfg EXCEPT !.q.retList = <<>>],
                      [f EXCEPT !.list = q.retList, !.i = 1, !.pc = "loop"])
         [] f.pc = "loop" ->
              IF f.i > Len(f.list) THEN WithTop(cfg, [f EXCEPT !.pc = "end"])
              ELSE PushF(cfg, [f EXCEPT !.pc = "ret"],
                         Frame("FD", f.list[f.i], f.name, f.type))
         [] f.pc = "ret" ->
              IF q.retLoc # NullLoc THEN RetLoc(cfg, q.retLoc)
              ELSE WithTop(cfg, [f EXCEPT !.i = @ + 1, !.pc = "loop"])
         [] f.pc = "end" ->
              RetLoc(IF outer
                     THEN [UsesCache(cfg) EXCEPT !.cache =
                              Set(@, "definitions", q.repo, key, NullLoc)]
                     ELSE cfg, NullLoc)

\* mutant: the read of parseForwardImports has no catch, the rejection
\* unwinds the whole request
StepPFUncaught(cfg) ==
    LET q == cfg.q
        f == TopF(cfg)
    IN CASE f.pc = "enter" ->
              IF Has(cfg.cache, "forwards", q.repo, f.file)
              THEN RetList(cfg, Get(cfg.cache, "forwards", q.repo, f.file))
              ELSE IssueRead(cfg, [f EXCEPT !.pc = "read"], f.file)
         [] f.pc = "read" ->
              LET c2 == TakeRead(cfg)
                  fw == ScanForwards(q.io.data.lines)
              IN IF ~q.io.data.ok
                 THEN [c2 EXCEPT !.q.status = "rejected", !.q.stack = <<>>]
                 ELSE RetList([c2 EXCEPT !.cache =
                                  Set(@, "forwards", q.repo, f.file, fw)], fw)

\* ---- parseForwardImports
StepPF(cfg) ==
    LET q == cfg.q
        f == TopF(cfg)
    IN CASE f.pc = "enter" ->
              IF Has(cfg.cache, "forwards", q.repo, f.file)
              THEN RetList(cfg, Get(cfg.cache, "forwards", q.repo, f.file))
              ELSE IssueRead(cfg, [f EXCEPT !.pc = "read"], f.file)
         [] f.pc = "read" ->
              LET c2 == TakeRead(cfg)
                  fw == ScanForwards(q.io.data.lines)
              IN IF ~q.io.data.ok THEN RetList(c2, <<>>)
                 ELSE RetList([c2 EXCEPT !.cache =
                                  Set(@, "forwards", q.repo, f.file, fw)], fw)

\* ---- collectSymbolsFromFile: the array it returns is the one the cache holds
StepCF(cfg) ==
    LET q == cfg.q
        f == TopF(cfg)
    IN CASE f.pc = "enter" ->
              IF Has(cfg.cache, "symbols", q.repo, f.file)
              THEN RetSym(cfg, Get(cfg.cache, "symbols", q.repo, f.file))
              ELSE IssueRead(cfg, [f EXCEPT !.pc = "read"], f.file)
         [] f.pc = "read" ->
              LET c2 == TakeRead(cfg)
                  syms == IF q.io.data.ok
                          THEN ScanSymbols(q.io.data.lines, f.file) ELSE <<>>
                  id == NewId(cfg.heap)
              IN RetSym([c2 EXCEPT !.heap = Put(@, id, syms),
                                   !.cache = Set(@, "symbols", q.repo, f.file, id)],
                        id)

\* ---- collectSymbolsRecursively: symbols.push appends to the array object
\* that collectSymbolsFromFile returned
StepCR(cfg) ==
    LET q == cfg.q
        f == TopF(cfg)
    IN CASE f.pc = "enter" ->
              IF f.file \in q.visited THEN RetSym(cfg, 0)
              ELSE PushF([cfg EXCEPT !.q.visited = MarkVisited(@, f.file),
                                     !.q.seen = @ \cup {f.file},
                                     !.q.revisit = @ \/ f.file \in q.seen],
                         [f EXCEPT !.pc = "sym"], Frame("CF", f.file, Null, ""))
         [] f.pc = "sym" ->
              PushF([cfg EXCEPT !.q.retSym = 0],
                    [f EXCEPT !.sym = q.retSym, !.pc = "fwds"],
                    Frame("PF", f.file, Null, ""))
         [] f.pc = "fwds" ->
              WithTop([cfg EXCEPT !.q.retList = <<>>],
                      [f EXCEPT !.list = q.retList, !.i = 1, !.pc = "loop"])
         [] f.pc = "loop" ->
              IF f.i > Len(f.list) THEN RetSym(cfg, f.sym)
              ELSE PushF(cfg, [f EXCEPT !.pc = "ret"],
                         Frame("CR", f.list[f.i], Null, ""))
         [] f.pc = "ret" ->
              WithTop([cfg EXCEPT !.heap[f.sym] = @ \o Arr(cfg.heap, q.retSym),
                                  !.q.retSym = 0],
                      [f EXCEPT !.i = @ + 1, !.pc = "loop"])

\* ---- getAvailableSymbols
StepGA(cfg) ==
    LET q == cfg.q
        f == TopF(cfg)
        old(ns) == IF ns \in DOMAIN f.acc THEN f.acc[ns] ELSE <<>>
    IN CASE f.pc = "enter" ->
              WithTop(AfterImports(cfg),
                      [f EXCEPT !.list = Imports(cfg), !.i = 1, !.pc = "loop"])
         [] f.pc = "loop" ->
              IF f.i > Len(f.list)
              THEN PushF(cfg, [f EXCEPT !.pc = "own"],
                         Frame("CF", q.doc, Null, ""))
              ELSE PushF([cfg EXCEPT !.q.visited = {}, !.q.seen = {}],
                         [f EXCEPT !.pc = "ret"],
                         Frame("CR", f.list[f.i].filePath, Null, ""))
         [] f.pc = "ret" ->
              LET ns == f.list[f.i].namespace
              IN WithTop([cfg EXCEPT !.q.retSym = 0],
                         [f EXCEPT !.acc = Put(@, ns, old(ns) \o Arr(cfg.heap, q.retSym)),
                                   !.i = @ + 1, !.pc = "loop"])
         [] f.pc = "own" ->
              RetMap(cfg, Put(f.acc, Null, old(Null) \o Arr(cfg.heap, q.retSym)))

\* ---- ScssVariableDefinitionProvider.provideDefinition: six branches in
\* the order of the code; branch 1, 3, 5 are the namespaced patterns
BranchType(br) == IF br <= 2 THEN "variable" ELSE IF br <= 4 THEN "mixin" ELSE "function"
BranchNs(ref, br) == IF br = 1 THEN ref.varNs ELSE IF br = 3 THEN ref.mixNs ELSE ref.funNs
BranchBare(ref, br) == IF br = 2 THEN ref.varBare ELSE IF br = 4 THEN ref.mixBare ELSE ref.funBare

StepPD(cfg) ==
    LET q == cfg.q
        f == TopF(cfg)
        m == BranchNs(q.ref, f.br)
        n == BranchBare(q.ref, f.br)
        hits == {j \in 1..Len(f.list) : f.list[j].namespace = m.ns}
        first == CHOOSE j \in hits : \A k \in hits : j <= k
        fresh == [cfg EXCEPT !.q.visited = {}, !.q.seen = {}]
    IN CASE f.pc = "enter" ->
              WithTop(AfterImports(cfg),
                      [f EXCEPT !.list = Imports(cfg), !.br = 1, !.pc = "branch"])
         [] f.pc = "branch" ->
              IF f.br > 6 THEN RetLoc(cfg, NullLoc)
              ELSE IF f.br \in {1, 3, 5}
              THEN IF m.name # Null /\ hits # {}
                   THEN PushF(fresh, [f EXCEPT !.pc = "nsret"],
                              Frame("FD", f.list[first].filePath, m.name,
                                    BranchType(f.br)))
                   ELSE WithTop(cfg, [f EXCEPT !.br = @ + 1])
              ELSE IF n # Null
                   THEN WithTop(cfg, [f EXCEPT !.i = 1, !.pc = "bloop"])
                   ELSE WithTop(cfg, [f EXCEPT !.br = @ + 1])
         [] f.pc = "nsret" -> RetLoc(cfg, q.retLoc)
         [] f.pc = "bloop" ->
              IF f.i > Len(f.list)
              THEN WithTop(cfg, [f EXCEPT !.br = @ + 1, !.pc = "branch"])
              ELSE IF f.list[f.i].namespace # Null
              THEN WithTop(cfg, [f EXCEPT !.i = @ + 1])
              ELSE PushF(fresh, [f EXCEPT !.pc = "bret"],
                         Frame("FD", f.list[f.i].filePath, n, BranchType(f.br)))
         [] f.pc = "bret" ->
              IF q.retLoc # NullLoc THEN RetLoc(cfg, q.retLoc)
              ELSE WithTop(cfg, [f EXCEPT !.i = @ + 1, !.pc = "bloop"])

Step(cfg) ==
    LET fn == TopF(cfg).fn
    IN CASE fn = "FD" -> StepFD(cfg)
         [] fn = "PF" -> StepPF(cfg)
         [] fn = "CF" -> StepCF(cfg)
         [] fn = "CR" -> StepCR(cfg)
         [] fn = "GA" -> StepGA(cfg)
         [] fn = "PD" -> StepPD(cfg)

\* run a request up to its next readFile (or to its end)
RECURSIVE Run(_)
Run(cfg) ==
    IF cfg.q.status # "running" \/ cfg.q.io.st # "none" THEN cfg
    ELSE Run(Step(cfg))

\* ---------------------------------------------------------------- inputs
X == <<"x">>
PX == <<"_", "x">>
MX == <<"mx">>
FN == <<"f">>
NsA == <<"a">>
NsK == <<"k">>

\* line shapes and cursor positions, as the six patterns match them
\*   `w: ns.$v;` with the cursor on ns (onName = FALSE) or on $v
RefNsVar(ns, v, onName) ==
    Ref(NsMatch(ns, v), IF onName THEN v ELSE Null, NoMatch, Null, NoMatch, Null)
\*   `w: $v;`
RefVar(v) == Ref(NoMatch, v, NoMatch, Null, NoMatch, Null)
\*   `@include ns.m;` (the bare @include pattern captures ns)
RefNsMixin(ns, m) == Ref(NoMatch, Null, NsMatch(ns, m), ns, NoMatch, Null)
\*   `@include m(ns.f(1));` with the cursor on f
RefNsFuncInInclude(m, ns, f) == Ref(NoMatch, Null, NoMatch, m, NsMatch(ns, f), f)

DefRefs == {RefNsVar(NsA, X, TRUE), RefNsVar(NsA, PX, FALSE),
            RefNsVar(NsK, X, TRUE), RefVar(X), RefNsMixin(NsA, MX),
            RefNsFuncInInclude(MX, NsA, FN)}

\* `@use "a";`
DocUseA == <<Stmts(<<Use(FA, Null, <<"a">>)>>, <<>>)>>
\* `@use "_a"; @use "b" as *;`
DocUseAStarB == <<Stmts(<<Use(FA, Null, <<"_", "a">>), Use(FB, Star, <<"b">>)>>, <<>>)>>

ForwardLine(targets) == Stmts(<<>>, targets)

\* `@use "sass:math";` next to a file `sass:math.scss`, then `@import "b";`
DocSassImportB == <<Stmts(<<UseSass("math", Null, FC)>>, <<>>), ImportLine(<<FB>>)>>

Menu(f) ==
    IF f = FM THEN {DocUseA, DocUseAStarB, DocSassImportB}
    ELSE IF f = FA THEN {<<ForwardLine(<<FB>>)>>,
                         <<ForwardLine(<<FB, FC>>)>>,
                         <<Decl("variable", PX), ForwardLine(<<FA>>)>>,
                         <<Decl("variable", X)>>}
    ELSE IF f = FB THEN {<<Decl("variable", X)>>,
                         <<ForwardLine(<<FA>>)>>,
                         <<Decl("mixin", MX)>>,
                         <<>>}
    ELSE {<<Decl("variable", X)>>, <<>>}

\* ---------------------------------------------------------------- paths
\* Strings of the path and alias functions are sequences of pieces; a piece
\* is one character, or a word whose inside no operation looks at.
LowerPiece(c) == IF c = "A" THEN "a" ELSE IF c = "B" THEN "b" ELSE c

\* mutant: paths are compared as they are written
LowerNot(s) == s

\* String.prototype.toLowerCase
Lower(s) == [i \in 1..Len(s) |-> LowerPiece(s[i])]

EndsWith(s, p) ==
    Len(p) <= Len(s) /\ SubSeq(s, Len(s) - Len(p) + 1, Len(s)) = p

\* index of the last "/" of a path, 0 when it has none
LastSlash(p) ==
    LET at == {i \in 1..Len(p) : p[i] = "/"}
    IN  IF at = {} THEN 0 ELSE CHOOSE i \in at : \A j \in at : j <= i

\* path.dirname, path.basename
Dirname(p) ==
    IF LastSlash(p) = 0 THEN <<".">>
    ELSE IF LastSlash(p) = 1 THEN <<"/">>
    ELSE SubSeq(p, 1, LastSlash(p) - 1)
Basename(p) == SubSeq(p, LastSlash(p) + 1, Len(p))

\* path.join of two segments: joined by "/", runs of "/" collapsed
RECURSIVE Squeeze(_)
Squeeze(s) ==
    IF Len(s) < 2 THEN s
    ELSE IF s[1] = "/" /\ s[2] = "/" THEN Squeeze(Tail(s))
    ELSE <<s[1]>> \o Squeeze(Tail(s))
Join(a, b) ==
    IF b = <<>> THEN Squeeze(a)
    ELSE IF a = <<>> THEN Squeeze(b)
    ELSE Squeeze(a \o <<"/">> \o b)

\* path.resolve(dir, p) for an absolute dir: an absolute p stands alone, a
\* leading "./" is dropped
Resolve(dir, p) ==
    IF StartsWith(p, <<"/">>) THEN Squeeze(p)
    ELSE IF StartsWith(p, <<".", "/">>) THEN Join(dir, SubSeq(p, 3, Len(p)))
    ELSE Join(dir, p)

\* s.replace(/\/\*$/, "")
StripWildcard(s) ==
    IF EndsWith(s, <<"/", "*">>) THEN SubSeq(s, 1, Len(s) - 2) ELSE s

\* ---------------------------------------------------------------- aliases
\* A PathAliasMap is a Map: its entries in insertion order, keys distinct.
Alias(pattern, paths) == [pattern |-> pattern, paths |-> paths]

\* Array.from(aliases.entries()).sort(([a], [b]) => b.length - a.length):
\* a stable sort by descending length of the pattern as written
RECURSIVE SortedAliases(_)
SortedAliases(aliases) ==
    IF aliases = <<>> THEN <<>>
    ELSE LET h == Head(aliases)
             rest == SortedAliases(Tail(aliases))
             k == Cardinality({i \in 1..Len(rest) :
                                 Len(rest[i].pattern) > Len(h.pattern)})
         IN  SubSeq(rest, 1, k) \o <<h>> \o SubSeq(rest, k + 1, Len(rest))

\* resolveAlias: the first sorted entry whose stripped pattern starts the
\* import path and that has a path; Null when there is none
ResolveAlias(importPath, aliases) ==
    LET sorted == SortedAliases(aliases)
        hits == {i \in 1..Len(sorted) :
                    /\ StartsWith(importPath, StripWildcard(sorted[i].pattern))
                    /\ sorted[i].paths # <<>>}
    IN  IF hits = {} THEN Null
        ELSE LET i == CHOOSE h \in hits : \A j \in hits : h <= j
                 aliasPrefix == StripWildcard(sorted[i].pattern)
             IN  Join(sorted[i].paths[1],
                      SubSeq(importPath, Len(aliasPrefix) + 1, Len(importPath)))

\* mutant: Map.set that keeps the value of a key it already holds
AliasSetKeep(m, pattern, paths) ==
    IF \E i \in 1..Len(m) : m[i].pattern = pattern THEN m
    ELSE Append(m, Alias(pattern, paths))

\* Map.set: a key the map holds keeps its place and takes the new value
AliasSet(m, pattern, paths) ==
    IF \E i \in 1..Len(m) : m[i].pattern = pattern
    THEN [i \in 1..Len(m) |-> IF m[i].pattern = pattern
                              THEN Alias(pattern, paths) ELSE m[i]]
    ELSE Append(m, Alias(pattern, paths))

\* for (const [pattern, paths] of aliasMap.entries()) merged.set(...)
RECURSIVE MergeInto(_, _)
MergeInto(merged, aliasMap) ==
    IF aliasMap = <<>> THEN merged
    ELSE MergeInto(AliasSet(merged, Head(aliasMap).pattern, Head(aliasMap).paths),
                   Tail(aliasMap))

\* mergeAliasMaps(...aliasMaps)
RECURSIVE MergeAliasMaps(_)
MergeAliasMaps(aliasMaps) ==
    IF aliasMaps = <<>> THEN <<>>
    ELSE MergeInto(MergeAliasMaps(SubSeq(aliasMaps, 1, Len(aliasMaps) - 1)),
                   aliasMaps[Len(aliasMaps)])

\* ---------------------------------------------------------------- tsconfig
\* The configuration files on disk: a function from the paths that exist to
\* what is in the file.  ok is FALSE for a file that does not parse; paths
\* is compilerOptions.paths in key order (each pattern with its targets),
\* references the path of each reference.
TsConfig(paths, references) ==
    [ok |-> TRUE, paths |-> paths, references |-> references]
NoTsConfig == [ok |-> FALSE, paths |-> <<>>, references |-> <<>>]

\* readTsConfig: null for a file that cannot be read or parsed
ReadTsConfig(tsfs, uri) ==
    IF uri \in DOMAIN tsfs THEN tsfs[uri] ELSE NoTsConfig

\* readTsConfigWithReferences: the list of configurations, and the visited
\* set the recursive calls share
RECURSIVE ReadTsConfigWithReferences(_, _, _)
RECURSIVE ReadReferences(_, _, _, _)

\* mutant: the loop over the references ends at the first missing file
ReadReferencesUntilMissing(tsfs, refs, tsconfigDir, acc) ==
    IF refs = <<>> THEN acc
    ELSE LET refPath == IF EndsWith(Head(refs), <<"tsconfig.json">>)
                        THEN Head(refs)
                        ELSE Join(Head(refs), <<"tsconfig.json">>)
             refUri == Resolve(tsconfigDir, refPath)
             sub == ReadTsConfigWithReferences(tsfs, refUri, acc.visited)
         IN  IF refUri \in DOMAIN tsfs
             THEN ReadReferences(tsfs, Tail(refs), tsconfigDir,
                      [result |-> acc.result \o sub.result,
                       visited |-> sub.visited])
             ELSE acc

ReadTsConfigWithReferences(tsfs, uri, visited) ==
    IF Lower(uri) \in visited THEN [result |-> <<>>, visited |-> visited]
    ELSE LET seen == visited \cup {Lower(uri)}
             tsconfig == ReadTsConfig(tsfs, uri)
         IN  IF ~tsconfig.ok THEN [result |-> <<uri>>, visited |-> seen]
             ELSE ReadReferences(tsfs, tsconfig.references, Dirname(uri),
                                 [result |-> <<uri>>, visited |-> seen])

\* the loop over tsconfig.references
ReadReferences(tsfs, refs, tsconfigDir, acc) ==
    IF refs = <<>> THEN acc
    ELSE LET refPath == IF EndsWith(Head(refs), <<"tsconfig.json">>)
                        THEN Head(refs)
                        ELSE Join(Head(refs), <<"tsconfig.json">>)
             refUri == Resolve(tsconfigDir, refPath)
             sub == ReadTsConfigWithReferences(tsfs, refUri, acc.visited)
         IN  ReadReferences(tsfs, Tail(refs), tsconfigDir,
                 IF refUri \in DOMAIN tsfs
                 THEN [result |-> acc.result \o sub.result,
                       visited |-> sub.visited]
                 ELSE acc)

\* extractPathAliases with the default baseUrl "."
ExtractPathAliases(tsconfig, tsconfigUri) ==
    [i \in 1..Len(tsconfig.paths) |->
        Alias(tsconfig.paths[i].pattern,
              [j \in 1..Len(tsconfig.paths[i].paths) |->
                  Resolve(Dirname(tsconfigUri),
                          StripWildcard(tsconfig.paths[i].paths[j]))])]

\* loadAliasesFromConfigs
RECURSIVE LoadAliasesFromConfigs(_, _)
LoadAliasesFromConfigs(tsfs, configUris) ==
    IF configUris = <<>> THEN <<>>
    ELSE LET n == Len(configUris)
             tsconfig == ReadTsConfig(tsfs, configUris[n])
             allAliases == LoadAliasesFromConfigs(tsfs, SubSeq(configUris, 1, n - 1))
         IN  IF tsconfig.ok
             THEN MergeInto(allAliases, ExtractPathAliases(tsconfig, configUris[n]))
             ELSE allAliases

\* ---------------------------------------------------------------- contexts
\* RepositoryContextMap: the contexts in insertion order, root paths distinct
Context(rootPath, aliases) == [rootPath |-> rootPath, aliases |-> aliases]
NoContext == Context(<<>>, <<>>)

\* mutant: every matching root replaces the best match
BetterAlways(length, bestMatchLength) == TRUE

\* normalizedRootPath.length > bestMatchLength
Better(length, bestMatchLength) == length > bestMatchLength

\* getRepositoryContext: bestMatch after the loop, NoContext for undefined
RECURSIVE BestMatch(_, _, _)
BestMatch(filePath, contexts, best) ==
    IF contexts = <<>> THEN best
    ELSE LET normalizedRootPath == Lower(Head(contexts).rootPath)
         IN  BestMatch(filePath, Tail(contexts),
                 IF /\ StartsWith(filePath, normalizedRootPath)
                    /\ Better(Len(normalizedRootPath), best.length)
                 THEN [match |-> Head(contexts), length |-> Len(normalizedRootPath)]
                 ELSE best)
GetRepositoryContext(fsPath, contexts) ==
    BestMatch(Lower(fsPath), contexts, [match |-> NoContext, length |-> 0]).match

\* ---------------------------------------------------------------- probing
\* mutant: sass is probed before scss
ExtsSassFirst == <<".sass", ".scss">>

\* for (const ext of ["scss", "sass"])
Exts == <<".scss", ".sass">>

\* the variants of findScssFile, in the order they are pushed
Variants(basePath) ==
    LET for(ext) ==
            <<basePath \o <<ext>>,
              Join(Dirname(basePath), <<"_">> \o Basename(basePath) \o <<ext>>)>> \o
            (IF EndsWith(basePath, <<"/", "index">>) THEN <<>>
             ELSE <<Join(basePath, <<"index", ext>>),
                    Join(basePath, <<"_", "index", ext>>)>>)
    IN  for(Exts[1]) \o for(Exts[2])

\* findScssFile: variants.find(fs.existsSync) || null
FindScssFile(basePath, existing) ==
    LET variants == Variants(basePath)
        found == {i \in 1..Len(variants) : variants[i] \in existing}
    IN  IF found = {} THEN Null
        ELSE variants[CHOOSE i \in found : \A j \in found : i <= j]

\* resolveScssPath
ResolveScssPath(importPath, currentFile, aliasMap) ==
    IF StartsWith(importPath, <<".">>)
    THEN Resolve(Dirname(currentFile), importPath)
    ELSE IF ResolveAlias(importPath, aliasMap) # Null
         THEN ResolveAlias(importPath, aliasMap)
         ELSE Resolve(Dirname(currentFile), importPath)

\* validateScssImports: document is the import path of each @use, @forward
\* or @import statement in text order; the result is the import paths the
\* diagnostics `Cannot find SCSS file` name, in order
ValidateScssImports(document, uri, aliasMap, existing) ==
    SelectSeq(document,
              LAMBDA importPath :
                  FindScssFile(ResolveScssPath(importPath, uri, aliasMap),
                               existing) = Null)

\* ---------------------------------------------------------------- completion
\* The text before the cursor is a sequence of tokens: "@", the word
\* "include", the identifier character "a", a blank, ".", "$" and ":".
\* [a-zA-Z0-9_-] matches the characters of "include" and "a"; \s the blank.
IdentTokens == {"a", "include"}
BlankTokens == {" "}
Tokens == IdentTokens \cup BlankTokens \cup {"@", ".", "$", ":"}

\* the length of the longest run of tokens of S that ends at position e
Trail(t, e, S) ==
    Cardinality({k \in 1..e : \A i \in (e - k + 1)..e : t[i] \in S})

\* CompletionContext
CompletionContext(symbolType, namespace, prefix) ==
    [symbolType |-> symbolType, namespace |-> namespace, prefix |-> prefix]

\* The six matches of getCompletionContext.  All end at the end of the text
\* with ([a-zA-Z0-9_-]*)$, the prefix; e is where the rest of the text ends.
\*   "mixinNs"  /@include\s+([a-zA-Z0-9_-]+)\.([a-zA-Z0-9_-]*)$/
\*   "mixin"    /@include\s+([a-zA-Z0-9_-]*)$/
\*   "varNs"    /([a-zA-Z0-9_-]+)\.\$([a-zA-Z0-9_-]*)$/
\*   "var"      /\$([a-zA-Z0-9_-]*)$/
\*   "funcNs"   /([a-zA-Z0-9_-]+)\.([a-zA-Z0-9_-]*)$/
\*   "value"    /[:,(]\s*[a-zA-Z0-9_-]*$/
\* ns is the captured namespace, Null when the match has none.
Match(rule, t) ==
    LET e == Len(t) - Trail(t, Len(t), IdentTokens)
        prefix == SubSeq(t, e + 1, Len(t))
        \* @include\s+ ends at position w
        include(w) == /\ Trail(t, w, BlankTokens) >= 1
                      /\ w - Trail(t, w, BlankTokens) >= 2
                      /\ t[w - Trail(t, w, BlankTokens)] = "include"
                      /\ t[w - Trail(t, w, BlankTokens) - 1] = "@"
        \* ([a-zA-Z0-9_-]+) ends at position d
        name(d) == SubSeq(t, d - Trail(t, d, IdentTokens) + 1, d)
        no == [ok |-> FALSE, ns |-> Null, prefix |-> prefix]
        yes(ns) == [ok |-> TRUE, ns |-> ns, prefix |-> prefix]
    IN  IF rule = "mixinNs"
        THEN IF /\ e >= 2 /\ t[e] = "." /\ name(e - 1) # <<>>
                /\ include(e - 1 - Len(name(e - 1)))
             THEN yes(name(e - 1)) ELSE no
        ELSE IF rule = "mixin"
        THEN IF include(e) THEN yes(Null) ELSE no
        ELSE IF rule = "varNs"
        THEN IF e >= 3 /\ t[e] = "$" /\ t[e - 1] = "." /\ name(e - 2) # <<>>
             THEN yes(name(e - 2)) ELSE no
        ELSE IF rule = "var"
        THEN IF e >= 1 /\ t[e] = "$" THEN yes(Null) ELSE no
        ELSE IF rule = "funcNs"
        THEN IF e >= 2 /\ t[e] = "." /\ name(e - 1) # <<>>
             THEN yes(name(e - 1)) ELSE no
        ELSE IF /\ e - Trail(t, e, BlankTokens) >= 1
                /\ t[e - Trail(t, e, BlankTokens)] = ":"
             THEN yes(Null) ELSE no

\* mutant: the bare variable match is tried before the namespaced one
MatchOrderBareFirst ==
    <<"mixinNs", "mixin", "var", "varNs", "funcNs", "value">>

\* the order in which getCompletionContext tries the matches
MatchOrder == <<"mixinNs", "mixin", "varNs", "var", "funcNs", "value">>

\* the symbolType a match returns
SymbolTypeOf(rule) ==
    IF rule \in {"mixinNs", "mixin"} THEN "mixin"
    ELSE IF rule \in {"varNs", "var"} THEN "variable" ELSE "function"

\* getCompletionContext: the first match in order decides; symbolType "" is
\* the null of no symbol context
GetCompletionContext(textBeforeCursor) ==
    LET hits == {i \in 1..Len(MatchOrder) : Match(MatchOrder[i], textBeforeCursor).ok}
    IN  IF hits = {} THEN CompletionContext("", Null, <<>>)
        ELSE LET rule == MatchOrder[CHOOSE i \in hits : \A j \in hits : i <= j]
             IN  CompletionContext(SymbolTypeOf(rule),
                                   Match(rule, textBeforeCursor).ns,
                                   Match(rule, textBeforeCursor).prefix)

\* provideCompletionItems after getAvailableSymbols has returned: the symbols
\* an item is created for, in order.  A named namespace takes every symbol
\* of the type; the unscoped one skips the names it has seen.
ProvideCompletionItems(symbolsByNamespace, context) ==
    LET symbols == IF context.namespace \in DOMAIN symbolsByNamespace
                   THEN symbolsByNamespace[context.namespace] ELSE <<>>
        typed(i) == symbols[i].type = context.symbolType
        seen(i) == \E j \in 1..(i - 1) : typed(j) /\ symbols[j].name = symbols[i].name
        taken == {i \in 1..Len(symbols) :
                     /\ typed(i)
                     /\ (context.namespace = Null => ~seen(i))
                     /\ (context.prefix # <<>> =>
                            StartsWith(symbols[i].name, context.prefix))}
        nth(k) == CHOOSE i \in taken : Cardinality({j \in taken : j <= i}) = k
    IN  [k \in 1..Cardinality(taken) |-> symbols[nth(k)]]

\* ---------------------------------------------------------------- documentation
\* The lines of a file as the loop of collectSymbolsFromFile tells them
\* apart: a `//` comment with its trimmed text, a line one of the three
\* declaration patterns matches, a blank line, a line that starts with `/*`,
\* and any other line.
SrcLine(k, text) == [k |-> k, text |-> text]
SrcLines == {SrcLine("comment", "c1"), SrcLine("comment", "c2"),
             SrcLine("comment", ""), SrcLine("decl", ""), SrcLine("blank", ""),
             SrcLine("block", ""), SrcLine("other", "")}

\* mutant: a blank line clears the buffer too
ClearsCommentOnBlank(line) == line.k \in {"other", "blank"}

\* trimmedLine && !trimmedLine.startsWith("/*"), on a line that is neither a
\* comment nor a declaration
ClearsComment(line) == line.k = "other"

\* the loop of collectSymbolsFromFile from line i on with the buffer
\* lastComment: for each symbol its line and its documentation
RECURSIVE CollectDocumentation(_, _, _)
CollectDocumentation(lines, i, lastComment) ==
    IF i > Len(lines) THEN <<>>
    ELSE IF lines[i].k = "comment"
    THEN CollectDocumentation(lines, i + 1, lines[i].text)
    ELSE IF lines[i].k = "decl"
    THEN <<[line |-> i - 1,
            documentation |-> IF lastComment = "" THEN Null ELSE <<lastComment>>]>>
         \o CollectDocumentation(lines, i + 1, "")
    ELSE CollectDocumentation(lines, i + 1,
                              IF ClearsComment(lines[i]) THEN "" ELSE lastComment)

\* ---------------------------------------------------------------- state
VARIABLES fs, cache, heap, req, started, last, edits, pure

vars == <<fs, cache, heap, req, started, last, edits, pure>>

Slots == {1, 2}
\* the (repository, file) pairs whose edit history is recorded
Tracked == {<<"r1", FA>>}
\* slots used when requests are dispatched one after the other
SeqSlots == {1}

\* last: the last operation on the cache, and whether it had something to
\* remove.  edits: per repository and file, whether the file was saved
\* ("dirty") and whether invalidateFile followed the save ("cleaned").
Op(op, had) == [op |-> op, had |-> had]

\* pure: the call of a path or alias function that is under way: the function,
\* its arguments, and its result once it has returned
Call(fn, args) == [fn |-> fn, args |-> args, returned |-> FALSE, out |-> <<>>]
NoPure == Call("", <<>>)

InitCommon ==
    /\ cache = EmptyCache
    /\ heap = EmptyMap
    /\ req = [r \in Slots |-> IdleReq]
    /\ started = 0
    /\ last = Op("none", FALSE)
    /\ edits = [e \in Tracked |-> "none"]
    /\ pure = NoPure

\* file contents that never change afterwards
InitStatic ==
    /\ fs \in [Files -> {Text(c) : c \in UNION {Menu(g) : g \in Files}}]
    /\ \A f \in Files : fs[f].lines \in Menu(f)
    /\ InitCommon

\* files that are edited while requests run, and what is saved to them
DynFiles == {FA}
DynMenu(f) == {<<Decl("variable", X)>>,
               <<ForwardLine(<<FB>>), Decl("variable", X)>>}
DynRefs == {RefNsVar(NsA, X, TRUE)}

\* references asked for while the cache is invalidated
SeqRefs == {RefNsVar(NsA, X, TRUE), RefVar(X)}

\* files that are saved while requests overlap
InitConc ==
    /\ fs = [f \in Files |-> IF f = FM THEN Text(DocUseA)
                               ELSE IF f = FC THEN Text(<<>>)
                               ELSE Text(<<Decl("variable", X)>>)]
    /\ InitCommon

Init ==
    /\ \E m \in Menu(FM), a \in DynMenu(FA) :
          fs = [f \in Files |-> IF f = FM THEN Text(m)
                                  ELSE IF f = FA THEN Text(a)
                                  ELSE IF f = FC THEN Text(<<>>)
                                  ELSE Text(<<Decl("variable", X)>>)]
    /\ InitCommon

\* ---------------------------------------------------------------- actions
Config(q) == [q |-> q, cache |-> cache, heap |-> heap, fs |-> fs]

\* array objects that are still referenced
Live(c, rq) ==
    UNION {{c.symbols[r][k] : k \in DOMAIN c.symbols[r]} : r \in Repos} \cup
    UNION {{rq[r].stack[i].sym : i \in 1..Len(rq[r].stack)} \cup {rq[r].retSym}
           : r \in Slots}

Commit(r, cfg) ==
    /\ req' = [req EXCEPT ![r] = cfg.q]
    /\ cache' = cfg.cache
    /\ heap' = [id \in DOMAIN cfg.heap \cap Live(cfg.cache, req') |-> cfg.heap[id]]
    /\ last' = Op("none", FALSE)
    /\ edits' = edits
    /\ pure' = pure

\* a request takes the lowest slot that holds no running request
Free(r, slots) ==
    /\ r \in slots
    /\ req[r].status # "running"
    /\ \A r2 \in slots : req[r2].status # "running" => r <= r2

\* provideDefinition is dispatched and runs up to its first read
StartDef(r, slots, doc, ref) ==
    /\ Free(r, slots)
    /\ started < MaxRequests
    /\ started' = started + 1
    /\ fs' = fs
    /\ Commit(r, Run(Config([IdleReq EXCEPT !.status = "running",
            !.kind = "def", !.doc = doc, !.repo = RepoOf(doc), !.ref = ref,
            !.stack = <<Frame("PD", doc, Null, "")>>])))

\* getAvailableSymbols is dispatched and runs up to its first read
StartSym(r, slots, doc) ==
    /\ Free(r, slots)
    /\ started < MaxRequests
    /\ started' = started + 1
    /\ fs' = fs
    /\ Commit(r, Run(Config([IdleReq EXCEPT !.status = "running",
            !.kind = "sym", !.doc = doc, !.repo = RepoOf(doc),
            !.stack = <<Frame("GA", doc, Null, "")>>])))

\* the file system serves a pending readFile
PerformRead(r) ==
    /\ req[r].status = "running"
    /\ req[r].io.st = "issued"
    /\ req' = [req EXCEPT ![r].io = [st |-> "performed", file |-> @.file,
                                      data |-> fs[@.file]]]
    /\ last' = Op("none", FALSE)
    /\ UNCHANGED <<fs, cache, heap, started, edits, pure>>

\* the continuation after a readFile runs up to the next read
Resume(r) ==
    /\ req[r].status = "running"
    /\ req[r].io.st = "performed"
    /\ Commit(r, Run(Step(Config(req[r]))))
    /\ UNCHANGED <<fs, started>>

\* a file is saved with new content
ChangeFile(f, lines) ==
    /\ fs[f] # Text(lines)
    /\ fs' = [fs EXCEPT ![f] = Text(lines)]
    /\ last' = Op("none", FALSE)
    /\ edits' = [e \in Tracked |-> IF e[2] = f THEN "dirty" ELSE edits[e]]
    /\ UNCHANGED <<cache, heap, req, started, pure>>

NonEmpty(c, repo) ==
    /\ c.imports[repo] # EmptyMap
    /\ c.definitions[repo] # EmptyMap
    /\ c.forwards[repo] # EmptyMap
    /\ c.symbols[repo] # EmptyMap

InvalidateFile(repo, uri) ==
    /\ cache' = CacheInvalidateFile(cache, repo, uri)
    /\ heap' = [id \in DOMAIN heap \cap Live(cache', req) |-> heap[id]]
    /\ last' = Op("invalidateFile", cache' # cache)
    /\ edits' = [e \in Tracked |->
                    IF e = <<repo, uri>> /\ edits[e] = "dirty" THEN "cleaned"
                    ELSE edits[e]]
    /\ UNCHANGED <<fs, req, started, pure>>

InvalidateRepository(repo) ==
    /\ cache' = CacheInvalidateRepository(cache, repo)
    /\ heap' = [id \in DOMAIN heap \cap Live(cache', req) |-> heap[id]]
    /\ last' = Op("invalidateRepository", NonEmpty(cache, repo))
    /\ edits' = [e \in Tracked |->
                    IF e[1] = repo /\ edits[e] = "dirty" THEN "cleaned"
                    ELSE edits[e]]
    /\ UNCHANGED <<fs, req, started, pure>>

\* what invalidateFile is called with: a file path or a document URI string
UriArgs == {FA, UriString(FA), FC}

NextStatic ==
    \/ \E r \in SeqSlots, doc \in Docs, ref \in DefRefs : StartDef(r, SeqSlots, doc, ref)
    \/ \E r \in SeqSlots, doc \in Docs : StartSym(r, SeqSlots, doc)
    \/ \E r \in SeqSlots : PerformRead(r)
    \/ \E r \in SeqSlots : Resume(r)

Next ==
    \/ \E r \in SeqSlots, doc \in Docs, ref \in SeqRefs : StartDef(r, SeqSlots, doc, ref)
    \/ \E r \in SeqSlots, doc \in Docs : StartSym(r, SeqSlots, doc)
    \/ \E r \in SeqSlots : PerformRead(r)
    \/ \E r \in SeqSlots : Resume(r)
    \/ \E repo \in Repos, uri \in UriArgs : InvalidateFile(repo, uri)
    \/ \E repo \in Repos : InvalidateRepository(repo)

\* overlapping requests on one document while a file it reaches is edited
NextConc ==
    \/ \E r \in Slots, ref \in DynRefs : StartDef(r, Slots, FM, ref)
    \/ \E r \in Slots : StartSym(r, Slots, FM)
    \/ \E r \in Slots : PerformRead(r)
    \/ \E r \in Slots : Resume(r)
    \/ \E f \in DynFiles : \E lines \in DynMenu(f) : ChangeFile(f, lines)
    \/ \E f \in DynFiles : InvalidateFile(RepoOf(FM), f)

SpecStatic == InitStatic /\ [][NextStatic]_vars

Spec == Init /\ [][Next]_vars

SpecConc == InitConc /\ [][NextConc]_vars

\* ---- requests over files whose read fails
\* A file that exists and cannot be read (no permission, or removed between
\* the existence test of findScssFile and the read): readFile rejects.
FailDocs == {DocUseA, DocUseAStarB}
FailMenu(f) ==
    IF f = FM THEN {Text(c) : c \in FailDocs}
    ELSE IF f = FA THEN {Text(c) : c \in Menu(FA)} \cup {Unreadable}
    ELSE IF f = FB THEN {Text(<<Decl("variable", X)>>),
                         Text(<<ForwardLine(<<FA>>)>>), Unreadable}
    ELSE {Text(<<Decl("variable", X)>>)}

InitFail ==
    /\ fs \in [Files -> UNION {FailMenu(g) : g \in Files}]
    /\ \A f \in Files : fs[f] \in FailMenu(f)
    /\ InitCommon

\* an unreadable file becomes readable (its permissions are repaired, or it
\* is written again); nothing tells the cache
RestoreFile(f, lines) ==
    /\ ~fs[f].ok
    /\ ChangeFile(f, lines)

NextFail ==
    \/ \E r \in SeqSlots, ref \in SeqRefs : StartDef(r, SeqSlots, FM, ref)
    \/ \E r \in SeqSlots : StartSym(r, SeqSlots, FM)
    \/ \E r \in SeqSlots : PerformRead(r)
    \/ \E r \in SeqSlots : Resume(r)
    \/ \E f \in DynFiles : \E lines \in DynMenu(f) : RestoreFile(f, lines)

SpecFail == InitFail /\ [][NextFail]_vars

\* A pending readFile is eventually served and its continuation eventually
\* runs: the event loop never starves a resolved promise.  The second
\* conjunct is WF_vars(Resume(r)) written out, with ENABLED <<Resume(r)>>_vars
\* given by the guard of Resume (a continuation always changes req[r]).
ResumeEnabled(r) == req[r].status = "running" /\ req[r].io.st = "performed"

FairStatic ==
    /\ SpecStatic
    /\ \A r \in SeqSlots :
         /\ WF_vars(PerformRead(r))
         /\ ([]<>(~ResumeEnabled(r)) \/ []<><<Resume(r)>>_vars)

FairFail ==
    /\ SpecFail
    /\ \A r \in SeqSlots :
         /\ WF_vars(PerformRead(r))
         /\ ([]<>(~ResumeEnabled(r)) \/ []<><<Resume(r)>>_vars)

\* ---------------------------------------------------------------- calls
\* The path and alias functions are called on arguments drawn from the sets
\* below; a call returns in one step.
PatAt == <<"@", "/", "*">>
PatAtC == <<"@", "/", "c", "/", "*">>
PatS == <<"@", "s", "/", "*">>
PatSx == <<"@", "s", "x">>
Patterns == {PatAt, PatAtC, PatS, PatSx}

\* the sequences of at most n distinct elements of S
DistinctSeqs(S, n) ==
    {q \in UNION {[1..k -> S] : k \in 0..n} :
        \A i, j \in 1..Len(q) : q[i] = q[j] => i = j}

\* the directory an alias pattern is mapped to
AliasRoot(pattern) ==
    IF pattern = PatAt THEN <<"/", "src">>
    ELSE IF pattern = PatAtC THEN <<"/", "cmp">>
    ELSE IF pattern = PatS THEN <<"/", "s">>
    ELSE <<"/", "lib", "/", "sx">>
AliasMaps ==
    {[i \in 1..Len(q) |-> Alias(q[i], <<AliasRoot(q[i])>>)] :
        q \in DistinctSeqs(Patterns, MaxAliases)}
ImportPaths == {<<"@", "/", "c", "/", "b">>, <<"@", "/", "x">>,
                <<"@", "s", "x">>, <<"@", "s", "/", "x">>, <<"b">>}

\* tsconfig.json files: the root's, three that references may name, and
\* what their paths and references may be
TR == <<"/", "r", "/", "tsconfig.json">>
TA == <<"/", "a", "/", "tsconfig.json">>
TB == <<"/", "b", "/", "tsconfig.json">>
TAU == <<"/", "A", "/", "tsconfig.json">>
RefPaths == {<<"/", "a">>, <<"/", "b", "/", "tsconfig.json">>, <<"/", "A">>,
             <<"/", "g">>}
PathsMenu == {<<>>,
              <<Alias(PatAt, <<<<"src", "/", "*">>>>)>>,
              <<Alias(PatS, <<<<"lib">>>>), Alias(PatAt, <<<<"app", "/", "*">>>>)>>}
TsFiles ==
    {[c \in {TR, TA, TB} \cup au |->
         IF c = TR THEN TsConfig(pr, rr)
         ELSE IF c = TA THEN a
         ELSE IF c = TB THEN TsConfig(pb, rb)
         ELSE TsConfig(<<Alias(PatAt, <<<<"up">>>>)>>, <<>>)] :
        pr \in PathsMenu,
        rr \in UNION {[1..k -> RefPaths] : k \in 0..MaxReferences},
        a \in {NoTsConfig} \cup
              {TsConfig(pa, ra) : pa \in PathsMenu,
                                  ra \in {<<>>, <<<<"/", "b">>>>, <<<<"/", "r">>>>}},
        pb \in PathsMenu,
        rb \in {<<>>, <<<<"/", "A">>>>},
        au \in {{}, {TAU}}}

\* repository roots, each with an alias map that sends @/* to its own src
Roots == {<<"/", "a">>, <<"/", "A">>, <<"/", "a", "/", "b">>, <<"/", "c">>}
ContextMaps ==
    {[i \in 1..Len(q) |->
         Context(q[i], <<Alias(PatAt, <<q[i] \o <<"/", "src">>>>)>>)] :
        q \in DistinctSeqs(Roots, MaxContexts)}
FilePaths == {<<"/", "a", "/", "b", "/", "f">>, <<"/", "A", "/", "f">>,
              <<"/", "c", "/", "f">>, <<"/", "d", "/", "f">>,
              <<"/", "a", "b">>}

\* base paths that are probed, and the files that may exist next to them
BasePaths == {<<"/", "d", "/", "b">>, <<"/", "d", "/", "index">>,
              <<"/", "d", "/", "my", "index">>}
Candidates(base) ==
    {base \o <<e>> : e \in {".scss", ".sass"}} \cup
    {Dirname(base) \o <<"/", "_">> \o Basename(base) \o <<e>> :
        e \in {".scss", ".sass"}} \cup
    {base \o <<"/">> \o u \o <<"index", e>> :
        u \in {<<>>, <<"_">>}, e \in {".scss", ".sass"}}

\* documents that are validated: the import paths of their statements
SassMath == <<"sass:", "math">>
DocImports == {SassMath, <<".", "/", "b">>, <<"@", "/", "b">>}
Documents == UNION {[1..k -> DocImports] : k \in 1..MaxImports}
DocUri == <<"/", "d", "/", "m.scss">>
DocFiles == {<<"/", "d", "/", "b", ".scss">>, <<"/", "src", "/", "b", ".scss">>,
             <<"/", "d", "/", "sass:", "math", ".scss">>}

\* the texts before the cursor
Texts == UNION {[1..k -> Tokens] : k \in 0..MaxText}

SourceTexts == UNION {[1..k -> SrcLines] : k \in 0..MaxLines}

InitPure ==
    /\ fs = [f \in Files |-> Text(<<>>)]
    /\ cache = EmptyCache
    /\ heap = EmptyMap
    /\ req = [r \in Slots |-> IdleReq]
    /\ started = 0
    /\ last = Op("none", FALSE)
    /\ edits = [e \in Tracked |-> "none"]
    /\ \/ \E p \in ImportPaths, m \in AliasMaps :
             pure = Call("resolveAlias", [importPath |-> p, aliases |-> m])
       \/ \E t \in TsFiles :
             pure = Call("loadAliasesFromConfigs", [tsfs |-> t, uri |-> TR])
       \/ \E f \in FilePaths, c \in ContextMaps :
             pure = Call("getRepositoryContext", [fsPath |-> f, contexts |-> c])
       \/ \E b \in BasePaths : \E x \in SUBSET Candidates(b) :
             pure = Call("findScssFile", [basePath |-> b, existing |-> x])
       \/ \E t \in Texts :
             pure = Call("getCompletionContext", [textBeforeCursor |-> t])
       \/ \E l \in SourceTexts :
             pure = Call("collectSymbolsFromFile", [lines |-> l])
       \/ \E d \in Documents, x \in SUBSET DocFiles, m \in {<<>>, <<Alias(PatAt, <<<<"/", "src">>>>)>>} :
             pure = Call("validateScssImports",
                         [document |-> d, aliasMap |-> m, existing |-> x])

Return(fn, out) ==
    /\ pure.fn = fn
    /\ ~pure.returned
    /\ pure' = [pure EXCEPT !.returned = TRUE, !.out = out]
    /\ UNCHANGED <<fs, cache, heap, req, started, last, edits>>

CallResolveAlias ==
    /\ pure.fn = "resolveAlias"
    /\ Return("resolveAlias", ResolveAlias(pure.args.importPath, pure.args.aliases))

\* loadRepositoryContexts for one root: the configurations are discovered,
\* then their aliases are loaded
CallLoadAliasesFromConfigs ==
    /\ pure.fn = "loadAliasesFromConfigs"
    /\ LET referencedConfigs ==
               ReadTsConfigWithReferences(pure.args.tsfs, pure.args.uri, {}).result
       IN  Return("loadAliasesFromConfigs",
                  [configs |-> referencedConfigs,
                   aliases |-> LoadAliasesFromConfigs(pure.args.tsfs, referencedConfigs)])

CallGetRepositoryContext ==
    /\ pure.fn = "getRepositoryContext"
    /\ Return("getRepositoryContext",
              GetRepositoryContext(pure.args.fsPath, pure.args.contexts))

CallFindScssFile ==
    /\ pure.fn = "findScssFile"
    /\ Return("findScssFile", FindScssFile(pure.args.basePath, pure.args.existing))

CallValidateScssImports ==
    /\ pure.fn = "validateScssImports"
    /\ Return("validateScssImports",
              ValidateScssImports(pure.args.document, DocUri, pure.args.aliasMap,
                                  pure.args.existing))

CallGetCompletionContext ==
    /\ pure.fn = "getCompletionContext"
    /\ Return("getCompletionContext",
              GetCompletionContext(pure.args.textBeforeCursor))

\* the symbols of one file, on a cache miss
CallCollectSymbolsFromFile ==
    /\ pure.fn = "collectSymbolsFromFile"
    /\ Return("collectSymbolsFromFile",
              CollectDocumentation(pure.args.lines, 1, ""))

NextPure ==
    \/ CallResolveAlias
    \/ CallLoadAliasesFromConfigs
    \/ CallGetRepositoryContext
    \/ CallFindScssFile
    \/ CallValidateScssImports
    \/ CallGetCompletionContext
    \/ CallCollectSymbolsFromFile

SpecPure == InitPure /\ [][NextPure]_vars

\* ---------------------------------------------------------------- views
Parts == {"imports", "definitions", "forwards", "symbols"}
PublicNames == {X, MX, FN}
Names == PublicNames \cup {PX}

\* what the gets of a repository return: the symbols partition holds array
\* objects, a get returns the array's elements
ViewOf(c, h, repo) ==
    [imports     |-> c.imports[repo],
     definitions |-> c.definitions[repo],
     forwards    |-> c.forwards[repo],
     symbols     |-> [k \in DOMAIN c.symbols[repo] |-> h[c.symbols[repo][k]]]]

\* every entry that belongs to file f is absent from repository repo
NoEntryFor(c, repo, f) ==
    /\ UriString(f) \notin DOMAIN c.imports[repo]
    /\ f \notin DOMAIN c.symbols[repo]
    /\ \A n \in Names, t \in Types :
           CacheKey(f, n, t) \notin DOMAIN c.definitions[repo]

\* a step of a request that runs for repository repo
RequestStep(repo) ==
    \E r \in Slots : req'[r] # req[r] /\ req'[r].repo = repo

\* the entries of the file keys other than f are what they were
OtherFilesKept(repo, f) ==
    LET old == ViewOf(cache, heap, repo)
        new == ViewOf(cache', heap', repo)
    IN /\ \A g \in Files \ {f} :
            /\ \A part \in {"forwards", "symbols"} :
                  /\ (g \in DOMAIN old[part]) = (g \in DOMAIN new[part])
                  /\ g \in DOMAIN old[part] => old[part][g] = new[part][g]
            /\ \A n \in Names, t \in Types :
                  LET k == CacheKey(g, n, t)
                  IN /\ (k \in DOMAIN old.definitions) = (k \in DOMAIN new.definitions)
                     /\ k \in DOMAIN old.definitions =>
                            old.definitions[k] = new.definitions[k]
       /\ \A g \in Files : UriString(g) # f =>
            /\ (UriString(g) \in DOMAIN old.imports) = (UriString(g) \in DOMAIN new.imports)
            /\ UriString(g) \in DOMAIN old.imports =>
                   old.imports[UriString(g)] = new.imports[UriString(g)]

\* ---------------------------------------------------------------- claims

\* C1: after invalidateFile(repo, uri) for a file, given as its path or as its
\* document URI, the repository holds no imports, definition or symbols
\* entry of that file, so the next lookup of each kind recomputes.
C1_InvalidateFileForcesRecompute ==
    [][\A repo \in Repos, f \in Files :
          (InvalidateFile(repo, f) \/ InvalidateFile(repo, UriString(f)))
             => NoEntryFor(cache', repo, f)]_vars

\* C3: after invalidateRepository(repo) the imports, forwards, definitions
\* and symbols partitions of repo hold no entries.
C3_InvalidateRepositoryEmpties ==
    [][\A repo \in Repos :
          InvalidateRepository(repo)
             => \A part \in Parts : DOMAIN cache'[part][repo] = {}]_vars

\* an invalidateRepository has just emptied a repository whose four
\* partitions each held an entry
C3_Witness ==
    /\ last = Op("invalidateRepository", TRUE)
    /\ \E repo \in Repos : \A part \in Parts : DOMAIN cache[part][repo] = {}

\* C4: a set (a request step), invalidateFile or invalidateRepository on
\* repository a changes nothing that a get returns for another repository, and
\* invalidateFile(a, uri) keeps every entry of a whose file differs from uri.
C4_Isolation ==
    [][\A a \in Repos :
          /\ (RequestStep(a) \/ InvalidateRepository(a)
                 \/ \E u \in UriArgs : InvalidateFile(a, u))
                => \A b \in Repos \ {a} :
                      ViewOf(cache', heap', b) = ViewOf(cache, heap, b)
          /\ \A u \in UriArgs : InvalidateFile(a, u) => OtherFilesKept(a, u)]_vars

\* the part of C4 that the code keeps: operations on one repository leave
\* the other repositories alone
C4_RepositoryIsolation ==
    [][\A a \in Repos :
          (RequestStep(a) \/ InvalidateRepository(a)
              \/ \E u \in UriArgs : InvalidateFile(a, u))
             => \A b \in Repos \ {a} :
                   ViewOf(cache', heap', b) = ViewOf(cache, heap, b)]_vars

\* ---------------------------------------------------------------- reference
\* What the statements of the files say, computed without the cache and
\* without the interpreter.
Leading(name) == IF name = <<>> THEN "" ELSE name[1]
Public(name) == Leading(name) \notin {"_", "-"}

\* topmost declaration of (name, type) in a file
DeclOf(fsys, f, name, type) ==
    LET ls == fsys[f].lines
        hits == {i \in 1..Len(ls) :
                    ls[i].k = "decl" /\ ls[i].name = name /\ ls[i].type = type}
    IN IF hits = {} THEN NullLoc
       ELSE Loc(f, (CHOOSE i \in hits : \A j \in hits : i <= j) - 1)

\* every @forward statement of a file, in textual order
AllForwards(fsys, f) ==
    LET ls == fsys[f].lines
        ok(t) == t # NoFile
    IN Flatten([i \in 1..Len(ls) |-> SelectSeq(ls[i].fwds, ok)])

\* the forwards parseForwardImports extracts from the current content
CodeForwards(fsys, f) == IF fsys[f].ok THEN ScanForwards(fsys[f].lines) ELSE <<>>

Range(seq) == {seq[i] : i \in 1..Len(seq)}

RECURSIVE Reach(_, _, _)
Reach(fsys, frontier, seenSet) ==
    LET new == UNION {Range(AllForwards(fsys, f)) : f \in frontier} \ seenSet
    IN IF new = {} THEN seenSet ELSE Reach(fsys, new, seenSet \cup new)

\* a file and everything it reaches through @forward statements
Closure(fsys, f) == Reach(fsys, {f}, {f})

RECURSIVE CodeReach(_, _, _)
CodeReach(fsys, frontier, seenSet) ==
    LET new == UNION {Range(CodeForwards(fsys, f)) : f \in frontier} \ seenSet
    IN IF new = {} THEN seenSet ELSE CodeReach(fsys, new, seenSet \cup new)

CodeClosure(fsys, f) == CodeReach(fsys, {f}, {f})

\* depth-first, declared order, each file once: the first declaration found
RECURSIVE SpecSearch(_, _, _, _, _)
SpecSearch(fsys, todo, done, name, type) ==
    IF todo = <<>> THEN NullLoc
    ELSE IF Head(todo) \in done THEN SpecSearch(fsys, Tail(todo), done, name, type)
    ELSE IF DeclOf(fsys, Head(todo), name, type) # NullLoc
    THEN DeclOf(fsys, Head(todo), name, type)
    ELSE SpecSearch(fsys, AllForwards(fsys, Head(todo)) \o Tail(todo),
                    done \cup {Head(todo)}, name, type)

SpecDef(fsys, f, name, type) == SpecSearch(fsys, <<f>>, {}, name, type)

\* the same search over the forwards the code extracts: what
\* findDefinitionInFile yields on a cold cache for the current content
RECURSIVE CodeSearch(_, _, _, _, _)
CodeSearch(fsys, todo, done, name, type) ==
    IF todo = <<>> THEN NullLoc
    ELSE IF Head(todo) \in done THEN CodeSearch(fsys, Tail(todo), done, name, type)
    ELSE IF fsys[Head(todo)].ok /\ DeclOf(fsys, Head(todo), name, type) # NullLoc
    THEN DeclOf(fsys, Head(todo), name, type)
    ELSE CodeSearch(fsys, CodeForwards(fsys, Head(todo)) \o Tail(todo),
                    done \cup {Head(todo)}, name, type)

FreshDef(fsys, f, name, type) ==
    IF ~Public(name) THEN NullLoc ELSE CodeSearch(fsys, <<f>>, {}, name, type)

\* the namespaced reference under the cursor, if there is one
NsRefOf(ref) ==
    IF ref.varNs # NoMatch THEN [m |-> ref.varNs, type |-> "variable"]
    ELSE IF ref.mixNs # NoMatch THEN [m |-> ref.mixNs, type |-> "mixin"]
    ELSE [m |-> ref.funNs, type |-> "function"]

\* the import edges of a document, from its current content
EdgesOf(fsys, doc) == ScanImports(fsys[doc].lines)
EdgesFor(fsys, doc, ns) ==
    LET es == EdgesOf(fsys, doc)
        hit(e) == e.namespace = ns
    IN SelectSeq(es, hit)

DoneDef(q) == q.status = "done" /\ q.kind = "def"
DoneSym(q) == q.status = "done" /\ q.kind = "sym"
Quiescent == \A r \in Slots : req[r].status # "running"

\* C2: when all requests have completed, the memoized symbols, forwards and
\* definition entries of a file that was saved and then invalidated equal
\* what a fresh computation on its current content yields.
C2_OutOfOrderCompletionSafe ==
    Quiescent =>
      \A e \in Tracked :
        edits[e] = "cleaned" =>
          LET repo == e[1]
              f == e[2]
          IN /\ f \in DOMAIN cache.symbols[repo] =>
                   heap[cache.symbols[repo][f]] = ScanSymbols(fs[f].lines, f)
             /\ f \in DOMAIN cache.forwards[repo] =>
                   cache.forwards[repo][f] = CodeForwards(fs, f)
             /\ \A n \in Names, t \in Types :
                   CacheKey(f, n, t) \in DOMAIN cache.definitions[repo] =>
                     cache.definitions[repo][CacheKey(f, n, t)] = FreshDef(fs, f, n, t)

\* no request overflows the stack, none processes a file twice in one
\* top-level traversal, and a completed symbol collection holds the symbols of
\* every file its traversal reaches
C5_Safe ==
    \A r \in Slots :
      LET q == req[r]
      IN /\ q.status # "overflow"
         /\ ~q.revisit
         /\ Len(q.stack) <= 2 * Cardinality(Files) + 2
         /\ DoneSym(q) =>
              \A i \in 1..Len(EdgesOf(fs, q.doc)) :
                LET e == EdgesOf(fs, q.doc)[i]
                IN /\ e.namespace \in DOMAIN q.resSyms
                   /\ \A g \in CodeClosure(fs, e.filePath) :
                        Range(ScanSymbols(fs[g].lines, g))
                           \subseteq Range(q.resSyms[e.namespace])

\* C5: on every forwarding graph, cycles and self-forwards included, a
\* request never recurses without bound, processes no file twice in one
\* top-level traversal, returns the symbols of every file the traversal
\* reaches, and every dispatched request completes.
C5_CycleSafety ==
    /\ []C5_Safe
    /\ \A r \in SeqSlots : (req[r].status = "running") ~> (req[r].status = "done")

\* a completed symbol collection that went round the cycle a -> b -> a
C5_Witness ==
    \E r \in Slots :
      /\ DoneSym(req[r])
      /\ FB \in Range(CodeForwards(fs, FA))
      /\ FA \in Range(CodeForwards(fs, FB))
      /\ {FA, FB} \subseteq req[r].visited

\* C6: a namespaced lookup returns the first declaration, in depth-first
\* @forward order from the namespace's file, of a public symbol.
C6_ForwardingTransitive ==
    \A r \in Slots :
      LET q == req[r]
          nr == NsRefOf(q.ref)
          es == EdgesFor(fs, q.doc, nr.m.ns)
      IN (DoneDef(q) /\ nr.m # NoMatch /\ es # <<>> /\ Public(nr.m.name)
             /\ SpecDef(fs, es[1].filePath, nr.m.name, nr.type) # NullLoc)
           => q.resLoc = SpecDef(fs, es[1].filePath, nr.m.name, nr.type)

\* C7: a namespaced reference whose namespace matches an import edge is
\* resolved in that edge's file and its forward chain or not at all.
C7_NamespacePrecedence ==
    \A r \in Slots :
      LET q == req[r]
          nr == NsRefOf(q.ref)
          es == EdgesFor(fs, q.doc, nr.m.ns)
      IN (DoneDef(q) /\ nr.m # NoMatch /\ es # <<>> /\ q.resLoc # NullLoc)
           => q.resLoc.file \in Closure(fs, es[1].filePath)

\* C8: a namespaced reference whose namespace matches no import edge yields
\* no definition.
C8_UnknownNamespaceFails ==
    \A r \in Slots :
      LET q == req[r]
          nr == NsRefOf(q.ref)
      IN (DoneDef(q) /\ nr.m # NoMatch /\ EdgesFor(fs, q.doc, nr.m.ns) = <<>>)
           => q.resLoc = NullLoc

\* C9: findDefinitionInFile returns no location for a name that begins with
\* `_` or `-`, and the point-lookup cache holds no location under such a name.
C9_PrivateNeverFound ==
    /\ \A r \in Slots :
          ~Public(req[r].lastFD.name) => req[r].lastFD.res = NullLoc
    /\ \A repo \in Repos, f \in Files, n \in Names, t \in Types :
          (~Public(n) /\ CacheKey(f, n, t) \in DOMAIN cache.definitions[repo])
             => cache.definitions[repo][CacheKey(f, n, t)] = NullLoc

\* findDefinitionInFile has returned for a private name on a file that
\* declares that name
C9_Witness ==
    \E r \in Slots :
      LET c == req[r].lastFD
      IN /\ req[r].status = "done"
         /\ c.file # NoFile
         /\ c.name = PX
         /\ DeclOf(fs, c.file, c.name, c.type) # NullLoc
         /\ DOMAIN cache.definitions[req[r].repo] # {}
         /\ c.res = NullLoc

\* C10: the symbols getAvailableSymbols returns for a document hold no
\* private symbol of another file.
C10_PrivateHiddenFromImporters ==
    \A r \in Slots :
      LET q == req[r]
      IN DoneSym(q) =>
           \A ns \in DOMAIN q.resSyms : \A i \in 1..Len(q.resSyms[ns]) :
              q.resSyms[ns][i].filePath # q.doc => Public(q.resSyms[ns][i].name)

\* ---------------------------------------------------------------- C11..C20
\* the statements of a document that may contribute an edge with this file
\* and namespace: an @use that is not a built-in module, or an @forward
UseStatements(fsys, doc) ==
    Flatten([i \in 1..Len(fsys[doc].lines) |-> fsys[doc].lines[i].uses])
ForwardStatements(fsys, doc) ==
    Flatten([i \in 1..Len(fsys[doc].lines) |-> fsys[doc].lines[i].fwds])
ImportStatements(fsys, doc) ==
    Flatten([i \in 1..Len(fsys[doc].lines) |-> fsys[doc].lines[i].imps])

EdgeHasSource(fsys, doc, e) ==
    \/ \E i \in 1..Len(UseStatements(fsys, doc)) :
          LET u == UseStatements(fsys, doc)[i]
          IN /\ ~StartsWith(u.base, <<"sass:">>)
             /\ u.target = e.filePath
    \/ /\ e.namespace = Null
       /\ e.filePath \in Range(ForwardStatements(fsys, doc))

\* C11: the edge list parseScssImports memoizes and returns for a document
\* holds no edge that comes from an `@use "sass:..."` statement.
C11_BuiltinNeverAnEdge ==
    \A repo \in Repos, d \in Docs :
      UriString(d) \in DOMAIN cache.imports[repo] =>
        \A i \in 1..Len(cache.imports[repo][UriString(d)]) :
           EdgeHasSource(fs, d, cache.imports[repo][UriString(d)][i])

\* parseScssImports has run on a document with an `@use "sass:..."` whose
\* path findScssFile would resolve
C11_Witness ==
    \E r \in Slots :
      /\ req[r].status = "done"
      /\ UriString(req[r].doc) \in DOMAIN cache.imports[req[r].repo]
      /\ \E i \in 1..Len(UseStatements(fs, req[r].doc)) :
            /\ StartsWith(UseStatements(fs, req[r].doc)[i].base, <<"sass:">>)
            /\ UseStatements(fs, req[r].doc)[i].target # NoFile

\* C13: a bare reference is resolved through the files a document reaches by
\* @import as through unscoped @use: when an imported file declares the
\* public name, the lookup returns a declaration.
C13_ImportIsUnscopedUse ==
    \A r \in Slots :
      LET q == req[r]
      IN (/\ DoneDef(q)
          /\ NsRefOf(q.ref).m = NoMatch
          /\ q.ref.varBare # Null
          /\ \E g \in Range(ImportStatements(fs, q.doc)) :
                g # NoFile /\ SpecDef(fs, g, q.ref.varBare, "variable") # NullLoc)
           => q.resLoc # NullLoc

\* C19: when a request has completed, the result of its last outermost
\* findDefinitionInFile call for a public name is in the point-lookup cache
\* under the key of (file, name, kind).
C19_TopLevelResultCached ==
    \A r \in Slots :
      LET q == req[r]
          c == q.lastFD
          key == CacheKey(c.file, c.name, c.type)
      IN (DoneDef(q) /\ c.file # NoFile /\ Public(c.name))
           => /\ key \in DOMAIN cache.definitions[q.repo]
              /\ cache.definitions[q.repo][key] = c.res

\* C20: no findDefinitionInFile call below the outermost one calls
\* getDefinition or setDefinition, and a step of a lookup adds no
\* point-lookup entry keyed by a file other than the file the lookup
\* started at.
C20_OnlyOutermostTouchesCache ==
    [][\A r \in Slots :
         /\ ~req'[r].nestedCacheUse
         /\ (req'[r] # req[r] /\ req'[r].kind = "def") =>
              \A g \in Files, n \in Names, t \in Types :
                 (/\ CacheKey(g, n, t) \in DOMAIN cache'.definitions[req'[r].repo]
                  /\ CacheKey(g, n, t) \notin DOMAIN cache.definitions[req'[r].repo])
                    => (/\ Len(req[r].stack) >= 2
                        /\ req[r].stack[2].fn = "FD"
                        /\ req[r].stack[2].file = g)]_vars

\* a lookup that went through a nested call on a file for which the
\* point-lookup cache holds an entry under the same name and kind
C20_Witness ==
    \E r \in Slots :
      LET q == req[r]
          c == q.lastFD
      IN /\ DoneDef(q)
         /\ c.file # NoFile
         /\ \E g \in q.visited \ {c.file} :
               /\ CacheKey(g, c.name, c.type) \in DOMAIN cache.definitions[q.repo]
               /\ cache.definitions[q.repo][CacheKey(g, c.name, c.type)] # NullLoc
         /\ c.res # NullLoc

\* the call of fn that is under way has returned
Returned(fn) == pure.fn = fn /\ pure.returned

\* C12: validateScssImports names no built-in module path (one that starts
\* with sass:) in a `Cannot find SCSS file` diagnostic.
C12_NoBuiltinDiagnostic ==
    Returned("validateScssImports") =>
        \A i \in 1..Len(pure.out) : ~StartsWith(pure.out[i], <<"sass:">>)

\* C14: resolveAlias resolves an import path through the alias whose
\* pattern, stripped of its trailing wildcard, is the longest of those that
\* are a prefix of the import path, and through none when there is none.
C14_LongestMatchingPrefix ==
    Returned("resolveAlias") =>
        LET aliases == pure.args.aliases
            importPath == pure.args.importPath
            prefix(i) == StripWildcard(aliases[i].pattern)
            matching == {i \in 1..Len(aliases) : StartsWith(importPath, prefix(i))}
        IN  IF matching = {} THEN pure.out = Null
            ELSE \E i \in matching :
                    /\ \A j \in matching : Len(prefix(j)) <= Len(prefix(i))
                    /\ pure.out = Join(aliases[i].paths[1],
                                       SubSeq(importPath, Len(prefix(i)) + 1,
                                              Len(importPath)))

\* the aliases configuration uri contributes: none when it cannot be read
Contributed(tsfs, uri) ==
    IF ReadTsConfig(tsfs, uri).ok
    THEN ExtractPathAliases(ReadTsConfig(tsfs, uri), uri) ELSE <<>>
Defines(tsfs, uri, pattern) ==
    \E k \in 1..Len(Contributed(tsfs, uri)) :
        Contributed(tsfs, uri)[k].pattern = pattern

\* C15: the configurations of a repository are discovered root first, each
\* once, references depth-first, and the merged alias map holds exactly the
\* patterns some discovered configuration defines, each with the resolved
\* roots of the last discovered configuration that defines it.
C15_LastWins ==
    Returned("loadAliasesFromConfigs") =>
        LET tsfs == pure.args.tsfs
            configs == pure.out.configs
            merged == pure.out.aliases
            n == Len(configs)
            second == ReadTsConfig(tsfs, configs[2])
            nested == Resolve(Dirname(configs[2]),
                          IF EndsWith(second.references[1], <<"tsconfig.json">>)
                          THEN second.references[1]
                          ELSE second.references[1] \o <<"/", "tsconfig.json">>)
        IN  /\ n >= 1 /\ configs[1] = pure.args.uri
            /\ \A i, j \in 1..n : configs[i] = configs[j] => i = j
            /\ (n >= 2 /\ second.ok /\ second.references # <<>>
                  /\ nested \in DOMAIN tsfs
                  /\ Lower(nested) \notin {Lower(configs[1]), Lower(configs[2])})
               => (n >= 3 /\ configs[3] = nested)
            /\ \A k, l \in 1..Len(merged) :
                  merged[k].pattern = merged[l].pattern => k = l
            /\ \A i \in 1..n : \A k \in 1..Len(Contributed(tsfs, configs[i])) :
                  \E l \in 1..Len(merged) :
                     merged[l].pattern = Contributed(tsfs, configs[i])[k].pattern
            /\ \A l \in 1..Len(merged) :
                  \E i \in 1..n :
                     /\ \A j \in (i + 1)..n : ~Defines(tsfs, configs[j], merged[l].pattern)
                     /\ \E k \in 1..Len(Contributed(tsfs, configs[i])) :
                           Contributed(tsfs, configs[i])[k] = merged[l]
            /\ merged = MergeAliasMaps([i \in 1..n |-> Contributed(tsfs, configs[i])])

\* a pattern the root defines is defined again, with other roots, by a
\* configuration that a reference of a reference leads to
C15_Witness ==
    /\ Returned("loadAliasesFromConfigs")
    /\ Len(pure.out.configs) >= 3
    /\ \E l \in 1..Len(pure.out.aliases) :
          /\ Defines(pure.args.tsfs, pure.out.configs[1], pure.out.aliases[l].pattern)
          /\ Defines(pure.args.tsfs, pure.out.configs[3], pure.out.aliases[l].pattern)
          /\ \A k \in 1..Len(Contributed(pure.args.tsfs, pure.out.configs[1])) :
                Contributed(pure.args.tsfs, pure.out.configs[1])[k] # pure.out.aliases[l]
    /\ ReadTsConfig(pure.args.tsfs, pure.out.configs[2]).references # <<>>

\* p is a prefix of s when letter case is ignored
PrefixIgnoringCase(s, p) ==
    Len(p) <= Len(s) /\ \A i \in 1..Len(p) : LowerPiece(s[i]) = LowerPiece(p[i])
\* the contexts whose root path owns the file of the call
Owners ==
    {i \in 1..Len(pure.args.contexts) :
        PrefixIgnoringCase(pure.args.fsPath, pure.args.contexts[i].rootPath)}

\* C16: when some root path is a prefix of the file path, letter case
\* ignored, getRepositoryContext returns a context with such a root, no
\* other such root is longer, and `@/x` resolves through that context's
\* aliases into its own src directory.
C16_LongestRootOwns ==
    (Returned("getRepositoryContext") /\ Owners # {}) =>
        \E i \in Owners :
            /\ pure.out = pure.args.contexts[i]
            /\ \A j \in Owners : Len(pure.args.contexts[j].rootPath)
                                    <= Len(pure.out.rootPath)
            /\ ResolveAlias(<<"@", "/", "x">>, pure.out.aliases)
                  = pure.out.rootPath \o <<"/", "src", "/", "x">>

\* two roots own the file, the longer one was loaded first and is returned
C16_Witness ==
    /\ Returned("getRepositoryContext")
    /\ \E i, j \in Owners :
          /\ i < j
          /\ Len(pure.args.contexts[j].rootPath) < Len(pure.args.contexts[i].rootPath)
          /\ pure.out = pure.args.contexts[i]

\* C17 (as stated): getRepositoryContext returns a context for every file
\* path and every set of loaded contexts, never none.
C17_NeverNone ==
    Returned("getRepositoryContext") => pure.out # NoContext

\* C17: getRepositoryContext returns at most one context: none when no root
\* path is a prefix of the file path, letter case ignored, and otherwise one
\* of the contexts whose root path is such a prefix.
C17_OneWhenOwned ==
    Returned("getRepositoryContext") =>
        IF Owners = {} THEN pure.out = NoContext
        ELSE /\ pure.out # NoContext
             /\ \E i \in Owners : pure.out = pure.args.contexts[i]

\* the only root that owns the file is written in another letter case
C17_Witness ==
    /\ Returned("getRepositoryContext")
    /\ Cardinality(Owners) = 1
    /\ \E i \in Owners :
          /\ ~StartsWith(pure.args.fsPath, pure.args.contexts[i].rootPath)
          /\ pure.out = pure.args.contexts[i]
    /\ Len(pure.args.contexts) = 2

\* the first path of a priority order that exists, Null when none does
FirstExisting(order, existing) ==
    LET at == {i \in 1..Len(order) : order[i] \in existing}
    IN  IF at = {} THEN Null ELSE order[CHOOSE i \in at : \A j \in at : i <= j]
\* the candidates of a base path: beside it as a file or as a partial, and
\* inside it as an index file or an index partial
AsFile(base, e) == base \o <<e>>
AsPartial(base, e) == Dirname(base) \o <<"/", "_">> \o Basename(base) \o <<e>>
AsIndex(base, e) == base \o <<"/", "index", e>>
AsIndexPartial(base, e) == base \o <<"/", "_", "index", e>>

\* C18 (as stated): findScssFile returns the first existing path of
\* <base>.scss, <base>.sass, _<basename>.scss, _<basename>.sass and, when
\* the base does not end in index, <base>/index.scss, <base>/_index.scss,
\* <base>/index.sass, <base>/_index.sass.
C18_ClaimedOrder ==
    Returned("findScssFile") =>
        LET b == pure.args.basePath
        IN  pure.out = FirstExisting(
                <<AsFile(b, ".scss"), AsFile(b, ".sass"),
                  AsPartial(b, ".scss"), AsPartial(b, ".sass")>> \o
                (IF EndsWith(b, <<"index">>) THEN <<>>
                 ELSE <<AsIndex(b, ".scss"), AsIndexPartial(b, ".scss"),
                        AsIndex(b, ".sass"), AsIndexPartial(b, ".sass")>>),
                pure.args.existing)

\* C18: findScssFile returns the first existing path of <base>.scss,
\* _<basename>.scss, <base>/index.scss, <base>/_index.scss, <base>.sass,
\* _<basename>.sass, <base>/index.sass, <base>/_index.sass, the index paths
\* left out when the base ends in /index, and Null when none exists.
C18_ProbeOrder ==
    Returned("findScssFile") =>
        LET b == pure.args.basePath
            of(e) == <<AsFile(b, e), AsPartial(b, e)>> \o
                     (IF EndsWith(b, <<"/", "index">>) THEN <<>>
                      ELSE <<AsIndex(b, e), AsIndexPartial(b, e)>>)
        IN  pure.out = FirstExisting(of(".scss") \o of(".sass"), pure.args.existing)

\* <base>.sass and the partial _<basename>.scss both exist, <base>.scss does
\* not, and the partial is returned
C18_Witness ==
    /\ Returned("findScssFile")
    /\ AsFile(pure.args.basePath, ".sass") \in pure.args.existing
    /\ AsPartial(pure.args.basePath, ".scss") \in pure.args.existing
    /\ AsFile(pure.args.basePath, ".scss") \notin pure.args.existing
    /\ pure.out = AsPartial(pure.args.basePath, ".scss")

\* ---------------------------------------------------------------- C21..C30
\* root is the file's directory or an ancestor of it: the root's path ends
\* where a segment of the file's path ends, letter case ignored
Inside(fsPath, rootPath) ==
    /\ PrefixIgnoringCase(fsPath, rootPath)
    /\ Len(fsPath) > Len(rootPath)
    /\ (fsPath[Len(rootPath) + 1] = "/" \/ rootPath[Len(rootPath)] = "/")

\* C30: getRepositoryContext returns a context only for a file that lies
\* inside the context's root directory.
C30_OwnedOnlyInsideRoot ==
    (Returned("getRepositoryContext") /\ pure.out # NoContext) =>
        Inside(pure.args.fsPath, pure.out.rootPath)

\* C21: the context is that of the first rule that matches, in the order
\* @include ns.p, @include p, ns.$p, $p, ns.p, value position; no symbol
\* context when no rule matches.
C21_FirstMatchWins ==
    Returned("getCompletionContext") =>
        LET t == pure.args.textBeforeCursor
            m(rule) == Match(rule, t)
            ctx(rule) == CompletionContext(SymbolTypeOf(rule), m(rule).ns, m(rule).prefix)
        IN  pure.out =
              IF m("mixinNs").ok THEN ctx("mixinNs")
              ELSE IF m("mixin").ok THEN ctx("mixin")
              ELSE IF m("varNs").ok THEN ctx("varNs")
              ELSE IF m("var").ok THEN ctx("var")
              ELSE IF m("funcNs").ok THEN ctx("funcNs")
              ELSE IF m("value").ok THEN ctx("value")
              ELSE CompletionContext("", Null, <<>>)

\* a text that two rules match: `ns.$` is a namespaced and a bare variable
C21_Witness ==
    /\ Returned("getCompletionContext")
    /\ Match("varNs", pure.args.textBeforeCursor).ok
    /\ Match("var", pure.args.textBeforeCursor).ok
    /\ pure.out.namespace # Null
    /\ pure.out.symbolType = "variable"

\* the file a reference of the configuration at uri names
ReferenceUris(tsfs, uri) ==
    LET refs == ReadTsConfig(tsfs, uri).references
    IN  {Resolve(Dirname(uri),
                 IF EndsWith(refs[i], <<"tsconfig.json">>) THEN refs[i]
                 ELSE refs[i] \o <<"/", "tsconfig.json">>) : i \in 1..Len(refs)}
\* the configurations reachable from those of S through references to
\* files that exist
RECURSIVE ReachableConfigs(_, _)
ReachableConfigs(tsfs, S) ==
    LET more == S \cup (UNION {ReferenceUris(tsfs, u) : u \in S} \cap DOMAIN tsfs)
    IN  IF more = S THEN S ELSE ReachableConfigs(tsfs, more)

C22_NoDuplicateItems ==
    \A r \in Slots : DoneSym(req[r]) =>
        \A ns \in DOMAIN req[r].resSyms : \A type \in Types :
            LET symbols == req[r].resSyms[ns]
                items == ProvideCompletionItems(req[r].resSyms,
                                                CompletionContext(type, ns, <<>>))
            IN  /\ \A i, j \in 1..Len(items) : items[i].name = items[j].name => i = j
                /\ \A i \in 1..Len(items) : \E k \in 1..Len(symbols) :
                      /\ symbols[k] = items[i]
                      /\ \A l \in 1..(k - 1) :
                            ~(symbols[l].name = items[i].name /\ symbols[l].type = type)

\* C27: between requests, the symbols entry of a file holds the
\* declarations of that file, one record each, and nothing else.
C27_SymbolsEntryIsOwnDeclarations ==
    Quiescent =>
        \A repo \in Repos : \A f \in Files :
            Has(cache, "symbols", repo, f) =>
                Arr(heap, Get(cache, "symbols", repo, f)) = ScanSymbols(fs[f].lines, f)

\* C28: a getAvailableSymbols call that directly follows one for the same
\* document returns the same list for every namespace.
C28_IndexingIdempotent ==
    [][\A r \in Slots :
          (/\ DoneSym(req[r]) /\ DoneSym(req'[r])
           /\ started' = started + 1
           /\ req'[r].doc = req[r].doc
           /\ fs' = fs)
          => req'[r].resSyms = req[r].resSyms]_vars

\* C25: the outermost findDefinitionInFile call for a public name returns
\* the topmost declaration of the searched file when it has one, and
\* otherwise what the first @forward target that yields a definition
\* yields, the targets taken in declared order, depth-first, each file once.
C25_OwnDeclarationThenForwards ==
    \A r \in Slots :
      LET q == req[r]
          c == q.lastFD
      IN (DoneDef(q) /\ c.file # NoFile /\ Public(c.name))
           => c.res = IF DeclOf(fs, c.file, c.name, c.type) # NullLoc
                      THEN DeclOf(fs, c.file, c.name, c.type)
                      ELSE SpecSearch(fs, AllForwards(fs, c.file), {c.file},
                                      c.name, c.type)

\* the symbol of a given line among the extracted ones
SymbolAt(out, line) ==
    LET at == {n \in 1..Len(out) : out[n].line = line}
    IN out[CHOOSE n \in at : TRUE]

\* C26 (as stated): a declaration has documentation only when the line
\* immediately before it is a `//` comment; a blank line or any other line in
\* between leaves it without documentation.
C26_OnlyImmediatelyPreceding ==
    Returned("collectSymbolsFromFile") =>
      LET lines == pure.args.lines
      IN \A i \in 1..Len(lines) :
           lines[i].k = "decl" =>
             (SymbolAt(pure.out, i - 1).documentation # Null
                => i > 1 /\ lines[i - 1].k = "comment")

\* the comment a declaration at line i is documented by: the `//` line above
\* it from which only blank lines and lines starting with `/*` separate it
CommentFor(lines, i) ==
    LET js == {j \in 1..(i - 1) :
                 /\ lines[j].k = "comment"
                 /\ \A m \in (j + 1)..(i - 1) : lines[m].k \in {"blank", "block"}}
    IN IF js = {} THEN "" ELSE lines[CHOOSE j \in js : TRUE].text

\* C26: a `//` comment with text becomes a declaration's documentation
\* exactly when only blank lines and lines starting with `/*` stand between
\* it and the declaration; any other line that is neither a comment nor a
\* declaration, and any declaration, clears the buffer.
C26_CommentAcrossBlankLines ==
    Returned("collectSymbolsFromFile") =>
      LET lines == pure.args.lines
          decls == {i \in 1..Len(lines) : lines[i].k = "decl"}
      IN /\ Len(pure.out) = Cardinality(decls)
         /\ \A i \in decls :
              SymbolAt(pure.out, i - 1).documentation =
                 IF CommentFor(lines, i) = "" THEN Null
                 ELSE <<CommentFor(lines, i)>>

\* a comment, a blank line, a declaration: the declaration is documented
C26_Witness ==
    /\ Returned("collectSymbolsFromFile")
    /\ pure.args.lines = <<SrcLine("comment", "c1"), SrcLine("blank", ""),
                           SrcLine("decl", "")>>
    /\ pure.out = <<[line |-> 2, documentation |-> <<"c1">>]>>

\* the file system with every unreadable file replaced by an empty one
AsEmpty(fsys) == [f \in DOMAIN fsys |-> IF fsys[f].ok THEN fsys[f] ELSE Text(<<>>)]

Untouched == \A e \in Tracked : edits[e] = "none"

\* no request ends in a rejection; while the files are as they were at the
\* start, a completed symbol collection holds, for every import, the symbols
\* of every readable file reached with the unreadable ones taken as empty and
\* no symbol of an unreadable file, and a completed definition lookup returns
\* what the search over the same files returns
C23_Safe ==
    \A r \in Slots :
      LET q == req[r]
          c == q.lastFD
          es == EdgesOf(fs, q.doc)
      IN /\ q.status \in {"idle", "running", "done"}
         /\ (Untouched /\ DoneSym(q)) =>
              \A i \in 1..Len(es) :
                /\ es[i].namespace \in DOMAIN q.resSyms
                /\ \A g \in CodeClosure(AsEmpty(fs), es[i].filePath) :
                     Range(ScanSymbols(AsEmpty(fs)[g].lines, g))
                        \subseteq Range(q.resSyms[es[i].namespace])
                /\ \A j \in 1..Len(q.resSyms[es[i].namespace]) :
                     fs[q.resSyms[es[i].namespace][j].filePath].ok
         /\ (Untouched /\ DoneDef(q) /\ c.file # NoFile) =>
              c.res = FreshDef(AsEmpty(fs), c.file, c.name, c.type)

\* C23: a file read failure never aborts a request: every dispatched request
\* completes, an unreadable file contributes no symbols and no forwards, and
\* the symbols and definitions of the readable files reached are returned.
C23_ReadFailureNeverAborts ==
    /\ []C23_Safe
    /\ \A r \in SeqSlots : (req[r].status = "running") ~> (req[r].status = "done")

\* a symbol collection completed although a.scss could not be read, and
\* returned the symbol of b.scss
C23_Witness ==
    \E r \in Slots :
      /\ Untouched /\ DoneSym(req[r])
      /\ ~fs[FA].ok /\ fs[FB].ok
      /\ NsA \in DOMAIN req[r].resSyms /\ req[r].resSyms[NsA] = <<>>
      /\ Null \in DOMAIN req[r].resSyms
      /\ Symbol(X, "variable", FB, 0) \in Range(req[r].resSyms[Null])

\* C29: a read failure is never memoized: a file that could never be read
\* has no entry in the symbols, forwards or definitions partition.
C29_FailureNotMemoized ==
    Quiescent =>
      \A repo \in Repos, f \in Files :
        ~fs[f].ok =>
          /\ ~Has(cache, "symbols", repo, f)
          /\ ~Has(cache, "forwards", repo, f)
          /\ \A n \in Names, t \in Types :
                ~Has(cache, "definitions", repo, CacheKey(f, n, t))

TypeOK == \A r \in Slots : req[r].status \in {"idle", "running", "done", "overflow"}

====
